---- MODULE Spec2Model ----
\* Verification model of the PE processing core (src/src/pefile.cpp):
\* Interval, ImportLinker, the relocation codec (Reloc), the TLS and resource
\* processors and the PE pack/unpack orchestrator.
EXTENDS Integers, Sequences, FiniteSets, TLC

VARIABLES
    ivarr,      \* Interval::ivarr[0..ivnum-1], a sequence of [start, len]
    ivAdded,    \* every (start, len) handed to Interval::add so far
    ivFlat,     \* flatten() calls since the last add(), counted up to 2
    thunk_size, \* ImportLinker::thunk_size, 4 or 8
    sections,   \* ElfLinker::sections[0..nsections-1]
    symbols,    \* ElfLinker symbols, by name
    relocations,\* ElfLinker relocations
    output,     \* ElfLinker::output[0..outputlen-1]
    ilBuilt,    \* TRUE once ImportLinker::build() ran (output != nullptr)
    ilOrder,    \* the pairs handed to ImportLinker::add so far, in call order
    opt,        \* the process-wide options (opt->force, opt->win32_pe....)
    opt0,       \* the options as the command line set them
    fi,         \* the input file of the current operation
    fiOrigin,   \* "input", "pack0" (written by pack0) or "released"
    fiSource,   \* for a packed input: the file it was packed from
    fo,         \* the output file pack0 wrote last
    peLast,     \* the last call on fi and what it returned, threw and wrote
    nfiles,     \* files opened so far
    rr,         \* a Reloc reader over a relocation stream, and the stream rebuilt
    rl,         \* a Reloc builder, the caller's oxrelocs and the buffers released
    tls,        \* the TLS passes: the image's pointers, tlsiv and the builder's adds
    rs,         \* the resource tree's leaves through processResources and back
    fh,         \* readFileHeader on a file: pe_offset, the loop counter, the outcome
    rc,         \* a resource directory in the image: packed, then unpacked
    imp,        \* processImports0 on an import table: the linker's pairs, the entries emitted
    ivBase,     \* the buffer an Interval is tied to (base), and what clear() was called on
    pr          \* the 32-bit processRelocs on a set of relocations, and rebuildRelocs after it

ivVars == <<ivarr, ivAdded, ivFlat>>

ilVars == <<thunk_size, sections, symbols, relocations, output, ilBuilt, ilOrder>>

peVars == <<opt, opt0, fi, fiOrigin, fiSource, fo, peLast, nfiles>>

moreVars == <<fh, rc, imp, pr, ivBase>>

oldVars == <<ivVars, ilVars, peVars, rr, rl, tls, rs>>

\* what each of the later components leaves alone
fhRest == <<oldVars, rc, imp, pr, ivBase>>
rcRest == <<oldVars, fh, imp, pr, ivBase>>
impRest == <<oldVars, fh, rc, pr, ivBase>>
prRest == <<oldVars, fh, rc, imp, ivBase>>
ivBaseRest == <<oldVars, fh, rc, imp, pr>>

vars == <<ivVars, ilVars, peVars, rr, rl, tls, rs, moreVars>>

\* what the Interval operations leave alone, and what the ImportLinker's do
ivRest == <<ilVars, peVars, rr, rl, tls, rs, moreVars>>
ilRest == <<ivVars, peVars, rr, rl, tls, rs, moreVars>>
peRest == <<ivVars, ilVars, rr, rl, tls, rs, moreVars>>

\* ------------------------------------------------------------------
\* unsigned arithmetic wraps modulo a power of two.  The C type is 32 bits wide;
\* the model keeps the wrap-around but at 30 bits, the widest modulus whose sums
\* stay inside the integers the model checker can represent.
UINT_MOD == 2^30

U32(x) == x % UINT_MOD

\* ------------------------------------------------------------------
\* Interval (pefile.cpp 216-273)

MaxIvAdds == 3

IvStarts == {0, 1, 3, UINT_MOD - 2}
IvLens == {0, 1, 2}

\* Interval::compare: ascending start, then descending len
compare(i1, i2) ==
    IF i1.start < i2.start THEN -1
    ELSE IF i1.start > i2.start THEN 1
    ELSE IF i1.len < i2.len THEN 1
    ELSE IF i1.len > i2.len THEN -1
    ELSE 0

\* upx_qsort(ivarr, ivnum, sizeof(interval), Interval::compare)
RECURSIVE IvInsert(_, _)
IvInsert(sorted, x) ==
    IF sorted = <<>> THEN <<x>>
    ELSE IF compare(x, Head(sorted)) <= 0 THEN <<x>> \o sorted
    ELSE <<Head(sorted)>> \o IvInsert(Tail(sorted), x)

RECURSIVE IvSort(_)
IvSort(arr) ==
    IF arr = <<>> THEN <<>> ELSE IvInsert(IvSort(Tail(arr)), Head(arr))

\* the inner for-loop of flatten (lines 260-262): returns <<arr, jc>>
RECURSIVE IvInner(_, _, _)
IvInner(arr, ic, jc) ==
    IF jc <= Len(arr) /\ U32(arr[ic].start + arr[ic].len) >= arr[jc].start
    THEN IF U32(arr[ic].start + arr[ic].len) < U32(arr[jc].start + arr[jc].len)
         THEN IvInner([arr EXCEPT ![ic].len =
                          U32(arr[jc].start + arr[jc].len - arr[ic].start)],
                      ic, jc + 1)
         ELSE IvInner(arr, ic, jc + 1)
    ELSE <<arr, jc>>

\* a flatten whose inner loop stops at ranges that merely touch
RECURSIVE IvInnerNoTouch(_, _, _)
IvInnerNoTouch(arr, ic, jc) ==
    IF jc <= Len(arr) /\ U32(arr[ic].start + arr[ic].len) > arr[jc].start
    THEN IF U32(arr[ic].start + arr[ic].len) < U32(arr[jc].start + arr[jc].len)
         THEN IvInnerNoTouch([arr EXCEPT ![ic].len =
                          U32(arr[jc].start + arr[jc].len - arr[ic].start)],
                      ic, jc + 1)
         ELSE IvInnerNoTouch(arr, ic, jc + 1)
    ELSE <<arr, jc>>

\* a flatten whose inner loop absorbs at most one following range
IvInnerOnce(arr, ic, jc) ==
    IF jc <= Len(arr) /\ U32(arr[ic].start + arr[ic].len) >= arr[jc].start
    THEN IF U32(arr[ic].start + arr[ic].len) < U32(arr[jc].start + arr[jc].len)
         THEN <<[arr EXCEPT ![ic].len =
                    U32(arr[jc].start + arr[jc].len - arr[ic].start)], jc + 1>>
         ELSE <<arr, jc + 1>>
    ELSE <<arr, jc>>

\* a flatten whose inner loop absorbs the following ranges without widening len
RECURSIVE IvInnerNoWiden(_, _, _)
IvInnerNoWiden(arr, ic, jc) ==
    IF jc <= Len(arr) /\ U32(arr[ic].start + arr[ic].len) >= arr[jc].start
    THEN IvInnerNoWiden(arr, ic, jc + 1)
    ELSE <<arr, jc>>

\* the loop body's scan, as flatten calls it
IvScan(arr, ic, jc) == IvInner(arr, ic, jc)

\* the outer for-loop of flatten (lines 258-267); ic is 1-based here
RECURSIVE IvOuter(_, _)
IvOuter(arr, ic) ==
    IF ic < Len(arr)
    THEN LET r == IvScan(arr, ic, ic + 1)
             a == r[1]
             jc == r[2]
             moved == IF jc > ic + 1
                      THEN SubSeq(a, 1, ic) \o SubSeq(a, jc, Len(a))
                      ELSE a
         IN IvOuter(moved, ic + 1)
    ELSE arr

\* Interval::flatten
flatten(arr) == IF Len(arr) = 0 THEN arr ELSE IvOuter(IvSort(arr), 1)


\* the size of the buffer at base, in bytes
IvBufLen == 6

\* the byte offsets from base that the ranges of arr cover
IvCover(arr) == UNION {arr[i].start .. (arr[i].start + arr[i].len - 1) : i \in 1..Len(arr)}

\* memset writes past the end of the buffer
IvOutside(arr) == \E o \in IvCover(arr) : o >= IvBufLen

\* Interval::clear: memset(base + start, 0, len) for every range; the bytes of
\* the buffer afterwards
clear(mem, arr) == [i \in 1..Len(mem) |-> IF i - 1 \in IvCover(arr) THEN 0 ELSE mem[i]]
\* ------------------------------------------------------------------
\* ImportLinker (pefile.cpp 688-914).  Names and data are sequences of
\* character codes.

MaxIlAdds == 3

\* enum at lines 738-750: 'D' and its successors
descriptor_id == 68
thunk_id == 69
dll_name_id == 70
proc_name_id == 71
ordinal_id == 72
thunk_separator_first == 73
thunk_separator == 74
thunk_separator_last == 75
procname_separator == 76

\* sizeof(import_desc)
SizeofImportDesc == 20

\* "*UND*", "*ZSTART", "Dzero", "Zzero", "X"
StrUND == <<42, 85, 78, 68, 42>>
StrZSTART == <<42, 90, 83, 84, 65, 82, 84>>
StrDzero == <<68, 122, 101, 114, 111>>
StrZzero == <<90, 122, 101, 114, 111>>
StrX == <<88>>

\* the dll spellings and procs the adds are drawn from: "a", "A", "ab";
\* proc names "p", "q", ordinal 1 and ordinal 0 (add(dll, 0), the empty import)
IlDlls == {<<97>>, <<65>>, <<97, 98>>}
IlProcs == {[proc |-> <<112>>, ordinal |-> 0],
            [proc |-> <<113>>, ordinal |-> 0],
            [proc |-> <<>>, ordinal |-> 1],
            [proc |-> <<>>, ordinal |-> 0]}
IlPairs == {[dll |-> d, proc |-> q.proc, ordinal |-> q.ordinal] : d \in IlDlls, q \in IlProcs}

zeros(n) == [i \in 1..n |-> 0]

tolower(c) == IF c >= 65 /\ c <= 90 THEN c + 32 ELSE c

\* encode_name: two letters 'a'..'p' per character
RECURSIVE encode_name(_)
encode_name(name) ==
    IF name = <<>> THEN <<>>
    ELSE <<97 + ((Head(name) \div 16) % 16), 97 + (Head(name) % 16)>>
         \o encode_name(Tail(name))

name_for_dll(dll, first_char) ==
    <<first_char>> \o encode_name([i \in 1..Len(dll) |-> tolower(dll[i])])

name_for_proc(dll, proc, first_char, separator) ==
    name_for_dll(dll, first_char) \o <<separator>> \o encode_name(proc)

\* upx_safe_snprintf(ord, sizeof(ord), "%c%05u", ordinal_id, ordinal)
OrdString(ordinal) ==
    <<ordinal_id,
      48 + ((ordinal \div 10000) % 10), 48 + ((ordinal \div 1000) % 10),
      48 + ((ordinal \div 100) % 10), 48 + ((ordinal \div 10) % 10),
      48 + (ordinal % 10)>>

\* strcmp on two names: negative, zero or positive, decided at the first
\* position where they differ or by the shorter one being a prefix
strcmp(a, b) ==
    LET n == IF Len(a) < Len(b) THEN Len(a) ELSE Len(b)
        d == {i \in 1..n : a[i] # b[i]}
    IN IF d # {}
       THEN a[CHOOSE i \in d : \A j \in d : i <= j] - b[CHOOSE i \in d : \A j \in d : i <= j]
       ELSE IF Len(a) = Len(b) THEN 0
       ELSE IF Len(a) < Len(b) THEN -1 ELSE 1

\* ElfLinker::findSection(name, false): the first section of that name, 0 if none
findSection(secs, name) ==
    IF \E i \in 1..Len(secs) : secs[i].name = name
    THEN CHOOSE i \in 1..Len(secs) :
             secs[i].name = name /\ \A j \in 1..(i - 1) : secs[j].name # name
    ELSE 0

\* ElfLinker::addSection(name, data, size, p2align): sort_id is the insertion index
addSection(secs, name, data, p2align) ==
    Append(secs, [name |-> name, input |-> data, p2align |-> p2align,
                  sort_id |-> Len(secs)])

\* ElfLinker::addRelocation(section, off, type, symbol, add)
Reloc(section, off, type, symbol, add) ==
    [section |-> section, off |-> off, type |-> type, symbol |-> symbol, add |-> add]

\* a comparison that keeps insertion order
ILcompareById(a, b) ==
    IF a.sort_id = b.sort_id THEN 0
    ELSE IF a.sort_id < b.sort_id THEN -1 ELSE 1

\* ImportLinker::compare
ILcompare(a, b) ==
    IF a.sort_id = b.sort_id THEN 0
    ELSE IF strcmp(a.name, b.name) # 0 THEN strcmp(a.name, b.name)
    ELSE IF a.sort_id < b.sort_id THEN -1 ELSE 1

\* upx_qsort(sections, nsections, sizeof(Section *), ImportLinker::compare)
RECURSIVE IlInsert(_, _)
IlInsert(sorted, x) ==
    IF sorted = <<>> THEN <<x>>
    ELSE IF ILcompare(x, Head(sorted)) <= 0 THEN <<x>> \o sorted
    ELSE <<Head(sorted)>> \o IlInsert(Tail(sorted), x)

RECURSIVE IlSort(_)
IlSort(secs) ==
    IF secs = <<>> THEN <<>> ELSE IlInsert(IlSort(Tail(secs)), Head(secs))

\* the linker state after ImportLinker::ImportLinker (lines 819-830)
IlNew ==
    [sections |-> addSection(addSection(addSection(addSection(<<>>,
                      StrUND, <<>>, 0), StrZSTART, <<>>, 0),
                      StrDzero, zeros(SizeofImportDesc), 0), StrZzero, zeros(1), 0),
     symbols |-> <<StrUND, StrZSTART>>,
     relocations |-> <<>>]

\* ImportLinker::add(dll, proc, ordinal) (lines 754-794) on linker state il;
\* proc = <<>> stands for nullptr
ILadd(il, tsize, dll, proc, ordinal) ==
    LET sdll == name_for_dll(dll, dll_name_id)
        desc_name == name_for_dll(dll, descriptor_id)
        newdll == findSection(il.sections, sdll) = 0
        tsep == IF newdll THEN thunk_separator_first ELSE thunk_separator
        il1 == IF newdll
               THEN [sections |-> addSection(addSection(il.sections,
                                      sdll, dll \o <<0>>, 0),
                                      desc_name, zeros(SizeofImportDesc), 0),
                     symbols |-> Append(il.symbols, sdll),
                     relocations |-> Append(il.relocations,
                                      Reloc(desc_name, 12, "R_X86_64_32", sdll, 0))]
               ELSE il
        thunk == IF proc = <<>> THEN name_for_dll(dll, thunk_id)
                 ELSE name_for_proc(dll, proc, thunk_id, tsep)
        reltype == IF tsize = 4 THEN "R_X86_64_32" ELSE "R_X86_64_64"
    IN IF findSection(il1.sections, thunk) # 0 THEN il1
       ELSE
       LET il2 == [sections |-> addSection(il1.sections, thunk, zeros(tsize), 0),
                   symbols |-> Append(il1.symbols, thunk),
                   relocations |-> il1.relocations]
           il3 == IF tsep = thunk_separator_first
                  THEN [sections |-> addSection(il2.sections,
                                        name_for_proc(dll, StrX, thunk_id,
                                                      thunk_separator_last),
                                        zeros(tsize), 0),
                        symbols |-> il2.symbols,
                        relocations |-> Append(il2.relocations,
                                        Reloc(desc_name, 16, "R_X86_64_32", thunk, 0))]
                  ELSE il2
           proc_name == name_for_proc(dll, proc, proc_name_id, procname_separator)
       IN IF ordinal # 0
          THEN [il3 EXCEPT !.relocations =
                    Append(@, Reloc(thunk, 0, reltype, StrUND, ordinal))]
          ELSE IF proc # <<>>
          THEN [sections |-> addSection(addSection(il3.sections,
                                 proc_name, zeros(2), 1),
                                 proc_name \o StrX, proc, 0),
                symbols |-> Append(il3.symbols, proc_name),
                relocations |-> Append(il3.relocations,
                                 Reloc(thunk, 0, reltype, proc_name, 0))]
          ELSE il3

\* the public add(dll, ordinal) and add(dll, proc) (lines 832-847)
ILaddPair(il, tsize, p) ==
    IF p.proc = <<>>
    THEN ILadd(il, tsize, p.dll,
               IF p.ordinal # 0 THEN OrdString(p.ordinal) ELSE <<>>, p.ordinal)
    ELSE ILadd(il, tsize, p.dll, p.proc, 0)

\* ElfLinker::addLoader(name) for one section name: pad to the section's
\* alignment with zero bytes (alignCode), then append the section's data
addLoader(secs, out, name) ==
    LET sec == secs[findSection(secs, name)]
        al == 2^sec.p2align
        pad == (al - (Len(out) % al)) % al
    IN out \o zeros(pad) \o sec.input

RECURSIVE IlEmit(_, _, _)
IlEmit(secs, ic, out) ==
    IF ic > Len(secs) THEN out
    ELSE IlEmit(secs, ic + 1, addLoader(secs, out, secs[ic].name))

\* ImportLinker::build (lines 849-868): sort, emit every section, addLoader("+40D")
ILbuild(secs) ==
    LET sorted == IlSort(secs)
        out == IlEmit(sorted, 1, <<>>)
    IN [sections |-> sorted, output |-> out \o zeros((4 - (Len(out) % 4)) % 4)]


\* ---- replaying an add order on a fresh linker

RECURSIVE IlAddAll(_, _, _)
IlAddAll(il, tsize, order) ==
    IF order = <<>> THEN il
    ELSE IlAddAll(ILaddPair(il, tsize, Head(order)), tsize, Tail(order))

\* section names in order, and the output bytes, of a built linker
IlResult(b) ==
    [names |-> [i \in 1..Len(b.sections) |-> b.sections[i].name],
     output |-> b.output]

IlRun(tsize, order) == IlResult(ILbuild(IlAddAll(IlNew, tsize, order).sections))


\* ------------------------------------------------------------------
\* PE orchestrator: pack0, canUnpack0, unpack0 (pefile.cpp 2073-3080).
\*
\* A PE header (pe_header_t) is a record; flags and dllflags are sets of the
\* IMAGE_FILE_* / IMAGE_DLLCHARACTERISTICS_* bits that are set; ddirs maps a
\* PEDIR_* name to [vaddr, size].  Section names are sequences of characters.
\* The modelled images have no TLS and no load-config directory.

MaxFiles == 2

\* sizeof(pe_header_t) of PeFile32, sizeof(pe_section_t), and the offset of
\* the PE header behind the DOS stub
SizeofIh == 248
SizeofSection == 40
PeOffset == 128

\* default_imagebase and subsystem_mask as the format passes them to pack0
DefaultImagebase == 4194304
SubsystemMask == {"WINDOWS_GUI", "WINDOWS_CUI", "EFI_APPLICATION"}
EfiSubsystems == {"EFI_APPLICATION", "EFI_BOOT_SERVICE_DRIVER",
                  "EFI_RUNTIME_DRIVER", "EFI_ROM"}

PeDirs == {"EXPORT", "IMPORT", "RESOURCE", "SECURITY", "BASERELOC", "DEBUG",
           "BOUND_IMPORT", "IAT", "COM_DESCRIPTOR", "D15"}

NoDir == [vaddr |-> 0, size |-> 0]

\* sizes the external collaborators report: the stub's ident string and
\* loader code, the decompressor's overlap overhead, the stub relocations
IdentSize == 48
LoaderCodeSize == 320
OverlapOverhead == 64
StubRelocSize == 16

\* ph.c_len as the codec returns it for u_len bytes
CompressedLen(u_len) == (u_len \div 4) + 1

\* out_len of the codec's optimizeReloc for count type-3 relocations
optimizeReloc(count) == IF count = 0 THEN 0 ELSE 4 + count

IsPow2(x) == x \in {1, 2, 4, 8, 16, 32, 64, 128, 256, 512, 1024, 2048, 4096, 8192}

\* ALIGN_UP(x, a) and (x + am1) & ~am1 for a power of two a
AlignUp(x, a) == ((x + a - 1) \div a) * a

UPX_MIN(a, b) == IF a < b THEN a ELSE b

\* a comparison of the whole name with "UPX0"
IsUPX0Name(name) == name = <<"U", "P", "X", "0">>

\* memcmp(name, "UPX", 3) == 0
IsUPXName(name) == Len(name) >= 3 /\ SubSeq(name, 1, 3) = <<"U", "P", "X">>

NoFile == [none |-> TRUE]
NoEi == [none |-> TRUE]

\* readPeHeader (lines 3107-3116)
isefi(ih) == ih.subsystem \in EfiSubsystems
isdll(ih) == ~isefi(ih) /\ "DLL" \in ih.flags

\* ---- an ordinary executable and the ways an input differs from it

PeBaseIh ==
    [subsystem |-> "WINDOWS_GUI", flags |-> {}, dllflags |-> {},
     imagebase |-> DefaultImagebase, entry |-> 4112, imagesize |-> 16384,
     codebase |-> 4096, codesize |-> 4096, datasize |-> 8192, bsssize |-> 0,
     filealign |-> 512, objectalign |-> 4096, objects |-> 3, chksum |-> 1,
     ddirs |-> [d \in PeDirs |->
                   CASE d = "IMPORT" -> [vaddr |-> 4352, size |-> 40]
                     [] d = "RESOURCE" -> [vaddr |-> 8192, size |-> 256]
                     [] d = "BASERELOC" -> [vaddr |-> 12288, size |-> 12]
                     [] OTHER -> NoDir]]

PeBaseSections ==
    <<[name |-> <<".", "t", "e", "x", "t">>, vaddr |-> 4096, vsize |-> 4096,
       size |-> 4096, rawdataptr |-> 1024],
      [name |-> <<".", "r", "s", "r", "c">>, vaddr |-> 8192, vsize |-> 4096,
       size |-> 512, rawdataptr |-> 5120],
      [name |-> <<".", "r", "e", "l", "o", "c">>, vaddr |-> 12288, vsize |-> 4096,
       size |-> 512, rawdataptr |-> 5632]>>

\* dllnum: import descriptors before the first one with dllname == 0;
\* relocs: the types of the entries of the base relocation directory;
\* needForce: what needForceOption() answers; compressible: what
\* checkFinalCompressionRatio answers; ph: whether readPackHeader finds a
\* pack header; ei: the extra_info trailer of a packed file
PeBase ==
    [ih |-> PeBaseIh, isection |-> PeBaseSections, file_size |-> 8192,
     dllnum |-> 1, relocs |-> <<3, 0>>, needForce |-> FALSE,
     compressible |-> TRUE, ph |-> FALSE, ei |-> NoEi]

SetDir(f, d, v, s) == [f EXCEPT !.ih.ddirs[d] = [vaddr |-> v, size |-> s]]

PeVariants(f) ==
    {f,
     [f EXCEPT !.ih.subsystem = "EFI_APPLICATION", !.dllnum = 0,
               !.ih.ddirs["IMPORT"] = NoDir],
     [f EXCEPT !.ih.subsystem = "NATIVE"],
     [f EXCEPT !.ih.flags = @ \cup {"DLL"}],
     [f EXCEPT !.ih.flags = @ \cup {"RELOCS_STRIPPED"}],
     [f EXCEPT !.ih.dllflags = @ \cup {"FORCE_INTEGRITY"}],
     [f EXCEPT !.ih.dllflags = @ \cup {"DYNAMIC_BASE", "HIGH_ENTROPY_VA"}],
     [f EXCEPT !.ih.dllflags = @ \cup {"GUARD_CF"}],
     [f EXCEPT !.ih.imagebase = 65536],
     [f EXCEPT !.ih.entry = 16],
     [f EXCEPT !.ih.filealign = 513],
     [f EXCEPT !.ih.objectalign = 4097],
     [f EXCEPT !.ih.objectalign = 256],
     [f EXCEPT !.ih.objectalign = 512],
     [f EXCEPT !.ih.filealign = 256],
     [f EXCEPT !.ih.ddirs["IMPORT"] = NoDir, !.dllnum = 0],
     [f EXCEPT !.ih.ddirs["IMPORT"].size = 20],
     [f EXCEPT !.dllnum = 0],
     [f EXCEPT !.ih.ddirs["BASERELOC"] = NoDir, !.relocs = <<>>],
     [f EXCEPT !.ih.ddirs["BASERELOC"].size = 8, !.relocs = <<>>],
     [f EXCEPT !.relocs = <<0, 0>>],
     [f EXCEPT !.ih.ddirs["BASERELOC"].size = 16, !.relocs = <<3, 3, 2, 1>>],
     [f EXCEPT !.ih.ddirs["RESOURCE"] = NoDir],
     [f EXCEPT !.ih.ddirs["EXPORT"] = [vaddr |-> 4608, size |-> 64]],
     [f EXCEPT !.ih.ddirs["SECURITY"] = [vaddr |-> 8192, size |-> 512]],
     [f EXCEPT !.ih.ddirs["COM_DESCRIPTOR"] = [vaddr |-> 4864, size |-> 72]],
     [f EXCEPT !.ih.ddirs["D15"] = [vaddr |-> 0, size |-> 4]],
     [f EXCEPT !.ih.ddirs["DEBUG"] = [vaddr |-> 4992, size |-> 28],
               !.ih.ddirs["IAT"] = [vaddr |-> 4400, size |-> 8]],
     [f EXCEPT !.isection[1].name = <<"U", "P", "X", "0">>],
     [f EXCEPT !.isection[1].name = <<"U", "P", "X">>],
     [f EXCEPT !.isection[1].vsize = 0],
     [f EXCEPT !.isection[3].vsize = 3072],
     [f EXCEPT !.isection[2].vsize = UINT_MOD - 1],
     [f EXCEPT !.isection[2].rawdataptr = 9216],
     [f EXCEPT !.file_size = 300],
     [f EXCEPT !.needForce = TRUE],
     [f EXCEPT !.compressible = FALSE]}

\* the input files: the ordinary executable with up to two of the differences
PeFiles == UNION {PeVariants(g) : g \in PeVariants(PeBase)}

\* ---- process-wide options (opt->...); -1 is the unset third state

PeOptions ==
    [force : BOOLEAN, exact : BOOLEAN, strip_relocs : {-1, 0, 1},
     compress_resources : {-1, 0}, compress_icons : {2},
     compress_rt_string : {-1}, compress_exports : {1}]

\* ---- pack0 (lines 2247-2686).  st carries the orchestrator's members and
\* the options; err is the kind of the exception thrown, "none" while running

PeStart(f, o) ==
    [err |-> "none", ih |-> f.ih, isection |-> <<>>, opt |-> o, rvamin |-> 0,
     soimport |-> 0, sorelocs |-> 0, soresources |-> 0, soexport |-> 0,
     soimpdlls |-> 0, big_relocs |-> 0, icondir_count |-> 0, dllstrings |-> 0,
     use_stub_relocs |-> TRUE]

PeOk(st) == st.err = "none"

PeFail(st, kind) == [st EXCEPT !.err = kind]

IDADDR(st, d) == st.ih.ddirs[d].vaddr
IDSIZE(st, d) == st.ih.ddirs[d].size

\* readSectionHeaders(objs, sizeof_ih) (lines 2073-2109)
readSectionHeaders(st, f) ==
    LET objs == st.ih.objects
    IN IF objs = 0 THEN st
       ELSE IF f.file_size < PeOffset + SizeofIh + SizeofSection * objs
       THEN PeFail(st, "CantPack")
       ELSE
       LET isec == f.isection
           rvamin == isec[1].vaddr
           rvalast == U32(isec[objs].vsize + isec[objs].vaddr)
           s1 == [st EXCEPT !.isection = isec, !.rvamin = rvamin]
       IN IF \E j \in 1..objs :
                 LET lo == isec[j].vaddr
                     hi == U32(isec[j].vsize + lo)
                 IN hi < lo \/ lo < rvamin \/ rvalast < hi
          THEN PeFail(s1, "CantPack")
          ELSE s1

\* checkHeaderValues(subsystem, mask, ih_entry, ih_filealign) (lines 2111-2140)
checkHeaderValues(st) ==
    IF ~PeOk(st) THEN st
    ELSE IF st.ih.subsystem \notin SubsystemMask THEN PeFail(st, "CantPack")
    ELSE IF IDSIZE(st, "COM_DESCRIPTOR") # 0 THEN PeFail(st, "CantPack")
    ELSE IF st.isection = <<>> THEN PeFail(st, "CantPack")
    ELSE IF IsUPXName(st.isection[1].name) THEN PeFail(st, "AlreadyPacked")
    ELSE IF ~st.opt.force /\ IDSIZE(st, "D15") # 0 THEN PeFail(st, "CantPack")
    ELSE IF st.ih.entry # 0 /\ st.ih.entry < st.rvamin THEN PeFail(st, "CantPack")
    ELSE IF ~IsPow2(st.ih.filealign) THEN PeFail(st, "CantPack")
    ELSE st

\* a handleStripRelocs that clears DYNAMIC_BASE alone
handleStripRelocsKeepEntropy(st) ==
    LET ih == st.ih
        aslr == "DYNAMIC_BASE" \in ih.dllflags
        o1 == IF st.opt.strip_relocs < 0
              THEN [st.opt EXCEPT !.strip_relocs =
                       IF isdll(ih) \/ isefi(ih) \/ aslr THEN 0
                       ELSE IF ih.imagebase >= DefaultImagebase THEN 1 ELSE 0]
              ELSE st.opt
        s1 == [st EXCEPT !.opt = o1]
    IN IF o1.strip_relocs = 0 THEN s1
       ELSE IF isdll(ih) \/ isefi(ih) THEN PeFail(s1, "CantPack")
       ELSE IF aslr /\ ~o1.force THEN PeFail(s1, "CantPack")
       ELSE IF ~o1.force /\ ih.imagebase < DefaultImagebase THEN PeFail(s1, "CantPack")
       ELSE [s1 EXCEPT !.ih.dllflags =
                           IF aslr THEN @ \ {"DYNAMIC_BASE"} ELSE @,
                       !.ih.flags = @ \cup {"RELOCS_STRIPPED"}]

\* handleStripRelocs(ih_imagebase, default_imagebase, dllflags) (lines
\* 2142-2172) together with ih.flags |= its result
handleStripRelocs(st) ==
    LET ih == st.ih
        aslr == "DYNAMIC_BASE" \in ih.dllflags
        o1 == IF st.opt.strip_relocs < 0
              THEN [st.opt EXCEPT !.strip_relocs =
                       IF isdll(ih) \/ isefi(ih) \/ aslr THEN 0
                       ELSE IF ih.imagebase >= DefaultImagebase THEN 1 ELSE 0]
              ELSE st.opt
        s1 == [st EXCEPT !.opt = o1]
    IN IF o1.strip_relocs = 0 THEN s1
       ELSE IF isdll(ih) \/ isefi(ih) THEN PeFail(s1, "CantPack")
       ELSE IF aslr /\ ~o1.force THEN PeFail(s1, "CantPack")
       ELSE IF ~o1.force /\ ih.imagebase < DefaultImagebase THEN PeFail(s1, "CantPack")
       ELSE [s1 EXCEPT !.ih.dllflags =
                           IF aslr THEN @ \ {"DYNAMIC_BASE", "HIGH_ENTROPY_VA"} ELSE @,
                       !.ih.flags = @ \cup {"RELOCS_STRIPPED"}]

\* an exception thrown by an earlier step passes every later step by;
\* needForceOption() and the FORCE_INTEGRITY block of pack0 (lines 2256-2264)
pack0Integrity(st, f) ==
    IF ~PeOk(st) THEN st
    ELSE IF ~st.opt.force /\ f.needForce THEN PeFail(st, "CantPack")
    ELSE IF "FORCE_INTEGRITY" \in st.ih.dllflags
    THEN IF st.opt.force
         THEN [st EXCEPT !.ih.dllflags = @ \ {"FORCE_INTEGRITY"}]
         ELSE PeFail(st, "CantPack")
    ELSE st

\* a pack0 that leaves the certificate directory in the header
pack0StripKeepSecurity(st) ==
    IF ~PeOk(st) THEN st
    ELSE IF "RELOCS_STRIPPED" \in st.ih.flags
    THEN [st EXCEPT !.opt.strip_relocs = 1]
    ELSE handleStripRelocs(st)

\* the certificate directory and the strip-relocs decision of pack0 (lines
\* 2267-2280)
pack0Strip(st) ==
    IF ~PeOk(st) THEN st
    ELSE IF "RELOCS_STRIPPED" \in st.ih.flags
    THEN [st EXCEPT !.ih.ddirs["SECURITY"] = NoDir, !.opt.strip_relocs = 1]
    ELSE handleStripRelocs([st EXCEPT !.ih.ddirs["SECURITY"] = NoDir])

pack0Efi(st) ==
    IF PeOk(st) /\ isefi(st.ih) /\ st.opt.strip_relocs = 0
    THEN [st EXCEPT !.use_stub_relocs = FALSE]
    ELSE st

\* the checks and header edits of pack0 up to the reading of the sections
\* (lines 2250-2291)
pack0Header(st, f) ==
    IF st.opt.exact THEN PeFail(st, "CantPackExact")
    ELSE pack0Efi(pack0Strip(checkHeaderValues(
             pack0Integrity(readSectionHeaders(st, f), f))))

\* readSections(objs, usize, ih_filealign, ih_datasize) (lines 2176-2223);
\* the section flags are not part of the modelled section header
RECURSIVE readSectionsLoop(_, _, _)
readSectionsLoop(st, ic, jc) ==
    IF ic > Len(st.isection) THEN st
    ELSE LET sec0 == st.isection[ic]
             sec == IF sec0.vsize = 0 THEN [sec0 EXCEPT !.vsize = sec0.size] ELSE sec0
             s1 == [st EXCEPT !.isection[ic] = sec]
         IN IF sec.rawdataptr = 0 THEN readSectionsLoop(s1, ic + 1, jc)
            ELSE IF sec.vaddr + sec.size > st.ih.imagesize THEN PeFail(s1, "CantPack")
            ELSE IF jc # 0 /\ U32(sec.rawdataptr - jc) > st.ih.filealign /\ ~st.opt.force
            THEN PeFail(s1, "CantPack")
            ELSE readSectionsLoop(s1, ic + 1, UPX_MIN(sec.size, sec.vsize) + sec.rawdataptr)

readSections(st) == IF ~PeOk(st) THEN st ELSE readSectionsLoop(st, 1, 0)

\* the GUARD_CF block of pack0 (lines 2298-2311)
pack0GuardCF(st) ==
    IF ~PeOk(st) THEN st
    ELSE IF "GUARD_CF" \in st.ih.dllflags
    THEN IF st.opt.force THEN [st EXCEPT !.ih.dllflags = @ \ {"GUARD_CF"}]
         ELSE PeFail(st, "CantPack")
    ELSE st

\* what addStubImports adds for the loader
StubImports ==
    <<[dll |-> <<107>>, proc |-> <<76>>, ordinal |-> 0],
      [dll |-> <<107>>, proc |-> <<71>>, ordinal |-> 0],
      [dll |-> <<107>>, proc |-> <<86>>, ordinal |-> 0]>>

\* processImports0 (lines 939-1159): sizes only; every dll of the modelled
\* images imports one name of one character
processImports0(st, f) ==
    IF ~PeOk(st) THEN st
    ELSE IF isefi(st.ih)
    THEN IF IDSIZE(st, "IMPORT") # 0 THEN PeFail(st, "CantPack") ELSE st
    ELSE LET dllnum == IF IDADDR(st, "IMPORT") # 0 THEN f.dllnum ELSE 0
         IN [st EXCEPT !.soimport = IF dllnum = 0 THEN 0 ELSE 4 + 12 * dllnum,
                       !.soimpdlls = Len(ILbuild(IlAddAll(IlNew, 4, StubImports).sections).output),
                       !.dllstrings = IF dllnum = 0 THEN 0 ELSE IDADDR(st, "IMPORT") + 64]

\* size of the resource directory and of the one RT_STRING leaf of the
\* modelled images
ResDirSize == 64
ResLeafSize == 32

\* processResources(Resource *res) (lines 1892-2020): the option defaults it
\* stores and the size of what it keeps uncompressed
processResources(st) ==
    IF ~PeOk(st) THEN st
    ELSE IF IDSIZE(st, "RESOURCE") = 0 THEN [st EXCEPT !.soresources = 0]
    ELSE LET o1 == IF st.opt.compress_resources = -1
                   THEN [st.opt EXCEPT !.compress_resources = IF isefi(st.ih) THEN 0 ELSE 1]
                   ELSE st.opt
             o2 == IF o1.compress_resources = 0
                   THEN [o1 EXCEPT !.compress_icons = 0, !.compress_rt_string = 0]
                   ELSE o1
             o3 == IF o2.compress_rt_string = -1
                   THEN [o2 EXCEPT !.compress_rt_string = 1] ELSE o2
             do_compress == o3.compress_resources # 0 /\ o3.compress_rt_string # 0
         IN [st EXCEPT !.opt = o3,
                       !.soresources = ResDirSize + IF do_compress THEN 0
                                                    ELSE 4 + ResLeafSize]

\* processExports(Export *xport) (lines 1279-1294)
processExports(st) ==
    LET so == AlignUp(IDSIZE(st, "EXPORT"), 4)
    IN IF ~PeOk(st) THEN st
       ELSE IF so # 0 /\ ~isdll(st.ih) /\ st.opt.compress_exports # 0
       THEN [st EXCEPT !.soexport = 0]
       ELSE [st EXCEPT !.soexport = so]

\* virta2objnum and tryremove (lines 2022-2041); indices count from 0
virta2objnum(addr, sect, objs) ==
    IF \E ic \in 1..objs : sect[ic].vaddr <= addr /\ sect[ic].vaddr + sect[ic].vsize > addr
    THEN (CHOOSE ic \in 1..objs :
              /\ sect[ic].vaddr <= addr /\ sect[ic].vaddr + sect[ic].vsize > addr
              /\ \A jc \in 1..(ic - 1) :
                     ~(sect[jc].vaddr <= addr /\ sect[jc].vaddr + sect[jc].vsize > addr)) - 1
    ELSE objs

tryremove(st, vaddr, objs) ==
    LET ic == virta2objnum(vaddr, st.isection, objs)
    IN IF ic # 0 /\ ic = objs - 1 THEN objs - 1 ELSE objs

RelocCount(relocs, types) == Cardinality({i \in 1..Len(relocs) : relocs[i] \in types})

\* PeFile32::processRelocs (lines 459-558)
processRelocs(st, f) ==
    LET relocnum == RelocCount(f.relocs, 1..15)
        x1 == RelocCount(f.relocs, {1})
        x2 == RelocCount(f.relocs, {2})
        x3 == RelocCount(f.relocs, {3})
    IN IF ~PeOk(st) THEN st
       ELSE IF st.opt.strip_relocs # 0 \/ relocnum = 0
       THEN [st EXCEPT !.big_relocs = 0, !.sorelocs = 0,
                       !.ih.objects = IF IDSIZE(st, "BASERELOC") # 0
                                      THEN tryremove(st, IDADDR(st, "BASERELOC"), @)
                                      ELSE @]
       ELSE IF 4 * relocnum + 8192 < optimizeReloc(x3) + 4 * (2 + x2 + x1)
       THEN PeFail(st, "CantUnpack")
       ELSE [st EXCEPT !.big_relocs = (IF x2 # 0 THEN 4 ELSE 0) + (IF x1 # 0 THEN 2 ELSE 0),
                       !.sorelocs = optimizeReloc(x3) + 4 * x2 + (IF x2 # 0 THEN 4 ELSE 0)
                                      + 4 * x1 + (IF x1 # 0 THEN 4 ELSE 0)]

\* the object-alignment check of pack0 (lines 2334-2339)
pack0ObjectAlign(st) ==
    IF PeOk(st) /\ ~IsPow2(st.ih.objectalign) THEN PeFail(st, "CantPack") ELSE st

\* the processors of pack0 in their order (lines 2318-2339)
pack0Process(st, f) ==
    pack0ObjectAlign(processRelocs(processExports(processResources(
        processImports0(st, f))), f))

Bytes(tag, n) == [i \in 1..n |-> tag]

\* the extra_info trailer (lines 2357-2382): the saved header, the saved
\* section headers, and the optional blocks and the final offset as one tag
\* per byte
ExtraInfo(st) ==
    [ih |-> st.ih,
     isection |-> SubSeq(st.isection, 1, st.ih.objects),
     tail |-> (IF st.soimport # 0
               THEN Bytes("cimports", 4) \o Bytes("dllstrings", 4) ELSE <<>>)
              \o (IF st.sorelocs # 0
                  THEN Bytes("crelocs", 4) \o Bytes("big_relocs", 1) ELSE <<>>)
              \o (IF st.soresources # 0 THEN Bytes("icondir_count", 2) ELSE <<>>)
              \o Bytes("offset", 4)]

\* the section names pack0 writes (lines 2545-2554)
PackedName0 == <<"F", "A", "N", "0">>
PackedName1 == <<"F", "A", "N", "1">>
PackedName2(soresources) ==
    IF soresources # 0 THEN <<".", "r", "s", "r", "c">> ELSE <<"U", "P", "X", "2">>

\* the sizes pack0 fixes before it compresses (lines 2344-2372, 2458-2476):
\* the end of the image, the uncompressed length and the shape of the output
pack0Sizes(st, f) ==
    [newvsize0 |-> AlignUp(st.isection[f.ih.objects].vaddr
                               + st.isection[f.ih.objects].vsize, st.ih.objectalign),
     extra |-> SizeofIh + st.ih.objects * SizeofSection + Len(ExtraInfo(st).tail),
     oh_filealign |-> UPX_MIN(st.ih.filealign, 512),
     soxrelocs |-> IF st.opt.strip_relocs = 0 /\ st.use_stub_relocs
                   THEN StubRelocSize ELSE 0,
     oobjs |-> IF (st.opt.strip_relocs = 0 /\ st.use_stub_relocs) \/ st.soimpdlls # 0
                      \/ st.soexport # 0 \/ st.soresources # 0
               THEN 3 ELSE 2]

\* the compression and the split of the identification (lines 2423-2476):
\* z is pack0Sizes
pack0Compress(st, z) ==
    LET u_len == z.newvsize0 + st.soimport + st.sorelocs + z.extra - st.rvamin
        split0 == PeOffset + SizeofSection * z.oobjs + SizeofIh
        identsplit == IF split0 % z.oh_filealign = 0 THEN 0
                      ELSE IF (split0 + IdentSize) \div z.oh_filealign
                                  = split0 \div z.oh_filealign
                      THEN IdentSize
                      ELSE AlignUp(split0, z.oh_filealign) - split0
    IN [newvsize |-> AlignUp(u_len + st.rvamin + OverlapOverhead, st.ih.objectalign),
        ph_c_len |-> CompressedLen(u_len),
        ic0 |-> IdentSize - identsplit,
        raw0 |-> AlignUp(split0, z.oh_filealign)]

\* the placement of the packed data and of the stub (lines 2478-2500): c is
\* pack0Compress
pack0Place(st, c) ==
    LET c_len == IF (c.ph_c_len + c.ic0) % 16 = 0 THEN c.ph_c_len
                 ELSE c.ph_c_len + 16 - ((c.ph_c_len + c.ic0) % 16)
        s1addr == AlignUp(c.newvsize - (c.ic0 + c_len), st.ih.objectalign)
        s1size == AlignUp(c.ic0 + c_len + LoaderCodeSize, 4)
    IN [s1addr |-> s1addr, s1size |-> s1size,
        ncsection |-> AlignUp(s1addr + s1size, st.ih.objectalign),
        upxsection |-> s1addr + c.ic0 + c_len]

\* the section headers of the output (lines 2536-2596)
pack0Sections(st, z, c, p) ==
    LET oa == st.ih.objectalign
        ncsize == z.soxrelocs + st.soimpdlls + st.soexport + st.soresources
        ncsize_virt_increase == IF z.soxrelocs # 0 /\ ncsize % oa = 0 THEN 8 ELSE 0
        size1 == AlignUp(p.s1size, z.oh_filealign)
        size2 == AlignUp(ncsize, z.oh_filealign)
    IN <<[name |-> PackedName0, vaddr |-> st.rvamin, vsize |-> p.s1addr - st.rvamin,
          size |-> 0, rawdataptr |-> c.raw0],
         [name |-> PackedName1, vaddr |-> p.s1addr, vsize |-> AlignUp(size1, oa),
          size |-> size1, rawdataptr |-> c.raw0],
         [name |-> PackedName2(st.soresources), vaddr |-> p.ncsection,
          vsize |-> AlignUp(size2 + ncsize_virt_increase, oa),
          size |-> size2, rawdataptr |-> c.raw0 + size1]>>

\* the data directories of the output header (lines 2503-2534, 2612-2616)
pack0Ddirs(st, z, p) ==
    [d \in PeDirs |->
        CASE d \in {"DEBUG", "IAT", "BOUND_IMPORT"} -> NoDir
          [] d = "RESOURCE" ->
               [vaddr |-> IF st.soresources # 0 THEN p.ncsection ELSE 0,
                size |-> st.soresources]
          [] d = "IMPORT" ->
               [vaddr |-> IF st.soimpdlls # 0 THEN p.ncsection + st.soresources ELSE 0,
                size |-> st.soimpdlls]
          [] d = "EXPORT" ->
               IF ~isdll(st.ih) /\ st.opt.compress_exports # 0
               THEN st.ih.ddirs["EXPORT"]
               ELSE [vaddr |-> IF st.soexport # 0
                               THEN p.ncsection + st.soresources + st.soimpdlls ELSE 0,
                     size |-> st.soexport]
          [] d = "BASERELOC" ->
               [vaddr |-> IF z.soxrelocs # 0
                          THEN p.ncsection + st.soresources + st.soimpdlls + st.soexport
                          ELSE 0,
                size |-> z.soxrelocs]
          [] OTHER -> st.ih.ddirs[d]]

\* the output header (lines 2503-2616)
pack0Oh(st, z, p, osection) ==
    [st.ih EXCEPT
        !.filealign = z.oh_filealign,
        !.entry = p.upxsection,
        !.objects = z.oobjs,
        !.chksum = 0,
        !.ddirs = pack0Ddirs(st, z, p),
        !.imagesize = osection[3].vaddr + osection[3].vsize,
        !.bsssize = osection[1].vsize,
        !.datasize = osection[3].vsize,
        !.codesize = osection[2].vsize,
        !.codebase = osection[2].vaddr,
        !.flags = IF st.opt.strip_relocs # 0 THEN @ \cup {"RELOCS_STRIPPED"} ELSE @]

\* the checks of the layout and the file written (lines 2366-2371, 2609,
\* 2423-2435, 2618-2659)
pack0Write(st, f, z, c, p, osection) ==
    IF z.newvsize0 + st.soimport + st.sorelocs
           > st.ih.imagesize + 65536 + IDSIZE(st, "IMPORT") + IDSIZE(st, "BOUND_IMPORT")
               + IDSIZE(st, "IAT") + IDSIZE(st, "BASERELOC")
    THEN [st |-> PeFail(st, "InternalError"), fo |-> NoFile]
    ELSE IF st.rvamin < c.raw0 THEN [st |-> PeFail(st, "CantPack"), fo |-> NoFile]
    ELSE IF ~f.compressible THEN [st |-> PeFail(st, "NotCompressible"), fo |-> NoFile]
    ELSE [st |-> st,
          fo |-> [ih |-> pack0Oh(st, z, p, osection),
                  isection |-> SubSeq(osection, 1, z.oobjs),
                  file_size |-> c.raw0 + osection[2].size + osection[3].size,
                  dllnum |-> IF st.soimpdlls # 0 THEN 1 ELSE 0,
                  relocs |-> IF z.soxrelocs # 0 THEN <<3, 0>> ELSE <<>>,
                  needForce |-> f.needForce, compressible |-> FALSE,
                  ph |-> TRUE, ei |-> ExtraInfo(st)]]

pack0Placed(st, f, z, c, p) == pack0Write(st, f, z, c, p, pack0Sections(st, z, c, p))

pack0Compressed(st, f, z, c) == pack0Placed(st, f, z, c, pack0Place(st, c))

pack0Sized(st, f, z) == pack0Compressed(st, f, z, pack0Compress(st, z))

\* the layout and the file pack0 writes (lines 2344-2659) for
\* last_section_rsrc_only = false; st is the state after the processors
pack0Layout(st, f) ==
    IF ~PeOk(st) THEN [st |-> st, fo |-> NoFile]
    ELSE pack0Sized(st, f, pack0Sizes(st, f))

pack0Result(r) == [err |-> r.st.err, opt |-> r.st.opt, fo |-> r.fo]

\* pack0 as a whole (lines 2247-2686): the options it leaves behind, the
\* error it threw and the output file (NoFile when it threw)
pack0(f, o) ==
    pack0Result(pack0Layout(pack0Process(pack0GuardCF(readSections(
        pack0Header(PeStart(f, o), f))), f), f))

\* ---- canUnpack0 (lines 3027-3080) with max_sections = 3: the set of its
\* possible outcomes.  isection[2] of a two-section file lies outside the
\* section array, so what the comparison with it yields is open.
canUnpack0(f) ==
    LET objs == f.ih.objects
        min_sections == IF isefi(f.ih) THEN 2 ELSE 3
        is_packed == objs <= 3 /\ (f.ih.ddirs["D15"].size # 0
                                     \/ f.ih.entry > f.isection[2].vaddr)
        found_ph == IsUPXName(f.isection[1].name) /\ f.ph
    IN IF objs < min_sections THEN {"-1"}
       ELSE IF is_packed /\ found_ph THEN {"true"}
       ELSE IF ~is_packed /\ ~found_ph THEN {"-1"}
       ELSE IF is_packed
       THEN IF objs < 3 THEN {"CantUnpack", "false", "InternalError"}
            ELSE IF f.ih.entry < f.isection[3].vaddr THEN {"CantUnpack"}
            ELSE {"false"}
       ELSE {"false"}

\* ---- unpack0 (lines 2906-3025) and the rebuild passes' reads of extra_info

EiRead(u, pass, n) ==
    [u EXCEPT !.reads = Append(@, [pass |-> pass,
                                   bytes |-> [i \in 1..n |->
                                       IF u.pos + i <= Len(u.tail) THEN u.tail[u.pos + i]
                                       ELSE "beyond"]]),
              !.pos = @ + n]

\* rebuildImports (lines 2815-2822): its guard and its read
rebuildImports(u) ==
    IF u.oh.ddirs["IMPORT"].vaddr = 0 \/ u.oh.ddirs["IMPORT"].size <= SizeofImportDesc THEN u
    ELSE EiRead(u, "rebuildImports", 8)

\* size of the relocation directory rebuildRelocs builds
RebuiltRelocSize == 12

\* rebuildRelocs (lines 2692-2751)
rebuildRelocs(u) ==
    IF u.oh.ddirs["BASERELOC"].vaddr = 0 \/ u.oh.ddirs["BASERELOC"].size = 0
           \/ "RELOCS_STRIPPED" \in u.oh.flags THEN u
    ELSE IF u.oh.ddirs["BASERELOC"].size = 8 THEN u
    ELSE [EiRead(u, "rebuildRelocs", 5) EXCEPT !.oh.ddirs["BASERELOC"].size = RebuiltRelocSize]

\* rebuildExports (lines 2753-2762)
rebuildExports(u, f) ==
    IF u.oh.ddirs["EXPORT"].size = 0
           \/ u.oh.ddirs["EXPORT"].vaddr = f.ih.ddirs["EXPORT"].vaddr THEN u
    ELSE [u EXCEPT !.opt.compress_exports = 0]

\* rebuildResources (lines 2779-2813)
rebuildResources(u, f) ==
    IF u.oh.ddirs["RESOURCE"].size = 0 \/ f.ih.ddirs["RESOURCE"].size = 0 THEN u
    ELSE LET u1 == EiRead(u, "rebuildResources", 2)
             vaddr == f.ih.ddirs["RESOURCE"].vaddr
             lastvaddr == f.isection[f.ih.objects].vaddr
         IN IF vaddr < lastvaddr THEN [u1 EXCEPT !.err = "CantUnpack"] ELSE u1

\* the header unpack0 starts from (lines 2925-2936, 2984-2990)
unpack0Start(f, o) ==
    [err |-> "none", opt |-> o, reads |-> <<>>, pos |-> 0, tail |-> f.ei.tail,
     oh |-> IF "RELOCS_STRIPPED" \in f.ih.flags
            THEN [f.ei.ih EXCEPT !.flags = @ \cup {"RELOCS_STRIPPED"},
                                 !.ddirs["BASERELOC"] = NoDir]
            ELSE f.ei.ih]

\* the header and section headers unpack0 writes (lines 2992-3024)
unpack0Write(u, f) ==
    IF u.err # "none"
    THEN [err |-> u.err, opt |-> u.opt, reads |-> u.reads,
          oh |-> NoFile, osection |-> <<>>]
    ELSE [err |-> "none", opt |-> u.opt, reads |-> u.reads,
          oh |-> [u.oh EXCEPT !.chksum = 0,
                              !.ddirs["DEBUG"] = NoDir,
                              !.ddirs["IAT"] = NoDir,
                              !.ddirs["BOUND_IMPORT"] = NoDir],
          osection |-> f.ei.isection]

\* unpack0 (lines 2906-3025) on a file whose pack header canUnpack0 has read:
\* the options it leaves behind, the error, the reads of the trailer and the
\* header and section headers it writes
unpack0(f, o) ==
    IF f.ih.filealign = 0 \/ f.ei = NoEi
           \/ f.ei.ih.objects <= 0 \/ (f.ih.objects > 2 /\ f.isection[3].size = 0)
    THEN [err |-> "CantUnpack", opt |-> o, reads |-> <<>>,
          oh |-> NoFile, osection |-> <<>>]
    ELSE unpack0Write(rebuildResources(rebuildExports(rebuildRelocs(
             rebuildImports(unpack0Start(f, o))), f), f), f)
\* ------------------------------------------------------------------
\* PeFile::Reloc: the base relocation reader and builder.
\*
\* A buffer is a sequence of 16-bit little-endian words; the word at byte offset
\* b (always even here) is element b \div 2 + 1.  A 32-bit value is two words,
\* low word first.

\* entries a builder may hold before its staging area; the source keeps 64 KiB,
\* which is 16384 staging slots of four bytes
InplaceSlots == 4

\* static constexpr unsigned RELOC_INPLACE_OFFSET, in bytes
RELOC_INPLACE_OFFSET == 4 * InplaceSlots

\* the terminal relocnum the callers construct a builder with
MaxRlAdds == 4

RlGet16(words, b) == words[b \div 2 + 1]

\* get_le32
RlGet32(words, b) == words[b \div 2 + 1] + 65536 * words[b \div 2 + 2]

\* ---- reading

\* a reader that checks size_of_block whatever opt->force says
readFromRelocationBlockStrict(src, off, force) ==
    IF off >= src.size THEN [kind |-> "eof", err |-> "none", count |-> 0]
    ELSE IF src.size - off < 8
    THEN [kind |-> "throw", err |-> "relocs overflow", count |-> 0]
    ELSE IF RlGet32(src.words, off + 4) = 0 /\ off = 0 /\ src.size = 8
    THEN [kind |-> "eof", err |-> "none", count |-> 0]
    ELSE IF RlGet32(src.words, off + 4) < 8
    THEN [kind |-> "throw", err |-> "bad reloc size_of_block", count |-> 0]
    ELSE IF src.size - off < RlGet32(src.words, off + 4)
    THEN [kind |-> "throw", err |-> "overflow reloc size_of_block", count |-> 0]
    ELSE IF RlGet32(src.words, off + 4) % 2 # 0
    THEN [kind |-> "throw", err |-> "odd reloc size_of_block", count |-> 0]
    ELSE [kind |-> "ok", err |-> "none", count |-> (RlGet32(src.words, off + 4) - 8) \div 2]

\* readFromRelocationBlock(next_rb): what the call does at byte offset off of
\* the stream src = [words, size]
readFromRelocationBlock(src, off, force) ==
    IF off >= src.size THEN [kind |-> "eof", err |-> "none", count |-> 0]
    ELSE IF src.size - off < 8
    THEN [kind |-> "throw", err |-> "relocs overflow", count |-> 0]
    ELSE IF RlGet32(src.words, off + 4) = 0 /\ off = 0 /\ src.size = 8
    THEN [kind |-> "eof", err |-> "none", count |-> 0]
    ELSE IF ~force /\ RlGet32(src.words, off + 4) < 8
    THEN [kind |-> "throw", err |-> "bad reloc size_of_block", count |-> 0]
    ELSE IF ~force /\ src.size - off < RlGet32(src.words, off + 4)
    THEN [kind |-> "throw", err |-> "overflow reloc size_of_block", count |-> 0]
    ELSE IF ~force /\ RlGet32(src.words, off + 4) % 2 # 0
    THEN [kind |-> "throw", err |-> "odd reloc size_of_block", count |-> 0]
    ELSE [kind |-> "ok", err |-> "none",
          count |-> IF RlGet32(src.words, off + 4) < 8 THEN 0
                    ELSE (RlGet32(src.words, off + 4) - 8) \div 2]

\* the entries of the block at off that lie inside the stream: the pairs
\* next() yields from them, type 0 skipped
RlBlockPairs(src, off, n) ==
    LET pair(k) == [pos |-> RlGet32(src.words, off) + (RlGet16(src.words, off + 8 + 2 * k) % 4096),
                    type |-> (RlGet16(src.words, off + 8 + 2 * k) \div 4096) % 16]
        F[k \in 0..n] ==
            IF k = 0 THEN <<>>
            ELSE IF pair(k - 1).type # 0 THEN Append(F[k - 1], pair(k - 1))
            ELSE F[k - 1]
    IN F[n]

\* how many of count entries after the header at off can be read: *rb.rel1++
\* is bounds-checked against the stream
RlReadable(src, off, count) ==
    IF off + 8 + 2 * count <= src.size THEN count
    ELSE (src.size - off - 8) \div 2

RECURSIVE Reloc_next(_, _, _, _)
\* next(pos, type) called until it returns false or throws, from the block at
\* byte offset off on; pairs are those yielded so far
Reloc_next(src, off, force, pairs) ==
    IF readFromRelocationBlock(src, off, force).kind = "eof"
    THEN [err |-> "none", pairs |-> pairs]
    ELSE IF readFromRelocationBlock(src, off, force).kind = "throw"
    THEN [err |-> readFromRelocationBlock(src, off, force).err, pairs |-> pairs]
    ELSE IF RlReadable(src, off, readFromRelocationBlock(src, off, force).count)
                < readFromRelocationBlock(src, off, force).count
    THEN [err |-> "span",
          pairs |-> pairs \o RlBlockPairs(src, off,
                        RlReadable(src, off, readFromRelocationBlock(src, off, force).count))]
    ELSE Reloc_next(src, off + 8 + 2 * readFromRelocationBlock(src, off, force).count, force,
                    pairs \o RlBlockPairs(src, off,
                                readFromRelocationBlock(src, off, force).count))

\* Reloc(byte *ptr, unsigned bytes): the constructor runs next() to the end
Reloc_reader(src, force) == Reloc_next(src, 0, force, <<>>)

\* ---- building

\* Reloc(unsigned relocnum): new byte[4 * relocnum + RELOC_INPLACE_OFFSET + slack];
\* the bytes are indeterminate, written here as -1.  The slack is an eighth of
\* the staging offset, as 8192 is of 64 KiB.
Reloc_builder(relocnum) ==
    [start_did_alloc |-> TRUE,
     counts0 |-> 0,
     size |-> 4 * relocnum + RELOC_INPLACE_OFFSET + RELOC_INPLACE_OFFSET \div 8,
     buf |-> [i \in 1..((4 * relocnum + RELOC_INPLACE_OFFSET
                          + RELOC_INPLACE_OFFSET \div 8) \div 2) |-> -1],
     err |-> "none"]

\* (pos << 4) >> 4 != pos || type > 0xf
RlAddOverflow(pos, type) == pos >= 2^28 \/ type > 15

\* the staged 32-bit value (pos << 4) + type as <<low word, high word>>
RlStaged(pos, type) == <<(pos % 4096) * 16 + type, pos \div 4096>>

\* add(pos, type)
Reloc_add(b, pos, type) ==
    IF b.err # "none" THEN b
    ELSE IF ~b.start_did_alloc THEN [b EXCEPT !.err = "assert"]
    ELSE IF RlAddOverflow(pos, type) THEN [b EXCEPT !.err = "relocation overflow"]
    ELSE IF RELOC_INPLACE_OFFSET + 4 * b.counts0 + 4 > b.size
    THEN [b EXCEPT !.err = "span"]
    ELSE [b EXCEPT !.buf[(RELOC_INPLACE_OFFSET + 4 * b.counts0) \div 2 + 1] =
                        RlStaged(pos, type)[1],
                   !.buf[(RELOC_INPLACE_OFFSET + 4 * b.counts0) \div 2 + 2] =
                        RlStaged(pos, type)[2],
                   !.counts0 = @ + 1]

\* le32_compare on two staged values <<low, high>>
RlLess(a, b) == a[2] < b[2] \/ (a[2] = b[2] /\ a[1] < b[1])

RECURSIVE RlInsert(_, _)
RlInsert(sorted, e) ==
    IF sorted = <<>> THEN <<e>>
    ELSE IF RlLess(e, Head(sorted)) THEN <<e>> \o sorted
    ELSE <<Head(sorted)>> \o RlInsert(Tail(sorted), e)

RECURSIVE RlSort(_)
RlSort(s) == IF s = <<>> THEN <<>> ELSE RlInsert(RlSort(Tail(s)), Head(s))

\* the staged values of slots 0..n-1
RlSlots(buf, n) ==
    [i \in 1..n |-> <<buf[(RELOC_INPLACE_OFFSET + 4 * (i - 1)) \div 2 + 1],
                      buf[(RELOC_INPLACE_OFFSET + 4 * (i - 1)) \div 2 + 2]>>]

\* upx_qsort(start_buf + RELOC_INPLACE_OFFSET, counts[0], 4, le32_compare)
RlQsort(buf, n) ==
    [w \in DOMAIN buf |->
        IF w > RELOC_INPLACE_OFFSET \div 2 /\ w <= RELOC_INPLACE_OFFSET \div 2 + 2 * n
        THEN RlSort(RlSlots(buf, n))[(w - RELOC_INPLACE_OFFSET \div 2 - 1) \div 2 + 1]
                                    [((w - RELOC_INPLACE_OFFSET \div 2 - 1) % 2) + 1]
        ELSE buf[w]]

\* a 16-bit store through a bounds-checked pointer at byte offset off.  written
\* collects the offsets finish() has stored to.
RlPut16(st, off, w) ==
    IF st.err # "none" THEN st
    ELSE IF off + 2 > st.size THEN [st EXCEPT !.err = "span"]
    ELSE [st EXCEPT !.buf[off \div 2 + 1] = w, !.written = @ \cup {off}]

\* a block end that leaves an odd number of entries unpadded
finish_blockNoPad(st) ==
    IF st.err # "none" THEN st
    ELSE [st EXCEPT !.end = st.rel + RlGet32(st.buf, st.rel + 4)]

\* finish_block(rel): pads the block at st.rel to a multiple of four with zero
\* bytes, stores the size and leaves the end of the block in st.end
finish_block(st) ==
    IF st.err # "none" THEN st
    ELSE IF ~(RlGet32(st.buf, st.rel + 4) >= 10 /\ RlGet32(st.buf, st.rel + 4) % 2 = 0)
    THEN [st EXCEPT !.err = "assert"]
    ELSE IF RlGet32(st.buf, st.rel + 4) % 4 # 0
    THEN [RlPut16(RlPut16(st, st.rel + RlGet32(st.buf, st.rel + 4), 0),
                  st.rel + 4, RlGet32(st.buf, st.rel + 4) + 2)
             EXCEPT !.end = st.rel + RlGet32(st.buf, st.rel + 4) + 2]
    ELSE [st EXCEPT !.end = st.rel + RlGet32(st.buf, st.rel + 4)]

\* lines 419-420: pos = get_le32(pos_ptr), the staged value of slot ic.  A slot
\* that finish() has stored to since add() filled it is recorded in clobbered.
RlFinRead(st, ic) ==
    IF st.err # "none" THEN st
    ELSE [st EXCEPT !.pos = <<RlGet16(st.buf, RELOC_INPLACE_OFFSET + 4 * ic),
                              RlGet16(st.buf, RELOC_INPLACE_OFFSET + 4 * ic + 2)>>,
                    !.clobbered = @ \/ (st.written \cap {RELOC_INPLACE_OFFSET + 4 * ic,
                                           RELOC_INPLACE_OFFSET + 4 * ic + 2} # {})]

\* lines 421-423: the duplicate test against slot ic - 1
RlFinDup(st, ic, force) ==
    IF st.err # "none" \/ ic = 0 THEN st
    ELSE IF <<RlGet16(st.buf, RELOC_INPLACE_OFFSET + 4 * ic - 4),
              RlGet16(st.buf, RELOC_INPLACE_OFFSET + 4 * ic - 2)>> = st.pos
    THEN [st EXCEPT !.err = IF force THEN "none" ELSE "duplicate relocs",
                    !.clobbered = @ \/ (st.written \cap {RELOC_INPLACE_OFFSET + 4 * ic - 4,
                                           RELOC_INPLACE_OFFSET + 4 * ic - 2} # {})]
    ELSE [st EXCEPT !.clobbered = @ \/ (st.written \cap {RELOC_INPLACE_OFFSET + 4 * ic - 4,
                                           RELOC_INPLACE_OFFSET + 4 * ic - 2} # {})]

\* lines 428-431, given where the block starts: the header of a new block,
\* virtual_address = (pos >> 4) & ~0xfff and size_of_block = 8
RlFinHeader(st, next_rb) ==
    IF st.err # "none" THEN st
    ELSE [RlPut16(RlPut16(RlPut16(RlPut16(st,
                next_rb, (st.pos[2] * 4096) % 65536),
                next_rb + 2, (st.pos[2] * 4096) \div 65536),
                next_rb + 4, 8),
                next_rb + 6, 0)
           EXCEPT !.rel = next_rb, !.rel1 = next_rb + 8, !.prev = st.pos]

\* lines 424-432: a new block when ic == 0 or (pos ^ prev) >= 0x10000, which
\* is a difference in the high words
RlFinBlock(st, ic) ==
    IF st.err # "none" THEN st
    ELSE IF ic = 0 \/ st.pos[2] # st.prev[2]
    THEN (IF st.rel = -1 THEN RlFinHeader(st, 0)
          ELSE RlFinHeader(finish_block(st), finish_block(st).end))
    ELSE st

\* no room is left for the entry of the slot at pos_ptr
RlInplaceNever(rel1, pos_ptr) == FALSE

\* line 434: ptr_diff_bytes(rb.rel1, pos_ptr) >= 0
RlInplaceFull(rel1, pos_ptr) == rel1 >= pos_ptr

\* lines 434-439: the entry ((pos & 0xf) << 12) + ((pos >> 4) & 0xfff)
RlFinEntry(st, ic) ==
    IF st.err # "none" THEN st
    ELSE IF RlInplaceFull(st.rel1, RELOC_INPLACE_OFFSET + 4 * ic)
    THEN [st EXCEPT !.err = "too many inplace relocs"]
    ELSE [RlPut16(RlPut16(st, st.rel1, (st.pos[1] % 16) * 4096 + (st.pos[1] \div 16)),
                  st.rel + 4, RlGet32(st.buf, st.rel + 4) + 2)
             EXCEPT !.rel1 = st.rel1 + 2,
                    !.overran = @ \/ st.rel1 >= RELOC_INPLACE_OFFSET + 4 * ic]

RECURSIVE RlFinLoop(_, _, _, _)
\* for (ic = 0; ic < counts[0]; ic++), lines 418-440
RlFinLoop(st, ic, n, force) ==
    IF ic >= n \/ st.err # "none" THEN st
    ELSE RlFinLoop(RlFinEntry(RlFinBlock(RlFinDup(RlFinRead(st, ic), ic, force), ic), ic),
                   ic + 1, n, force)

\* lines 441-443
RlFinSize(st) ==
    IF st.err # "none" THEN st
    ELSE IF st.rel = -1 THEN [st EXCEPT !.end = 0]
    ELSE finish_block(st)

\* finish(result_ptr, result_size) on the builder b: the loop's last state; its
\* end is result_size and its buf the buffer handed over
Reloc_finish(b, force) ==
    IF ~b.start_did_alloc
    THEN [err |-> "assert", buf |-> b.buf, size |-> b.size, rel |-> -1, rel1 |-> -1,
          prev |-> <<0, 0>>, pos |-> <<0, 0>>, end |-> 0, written |-> {},
          clobbered |-> FALSE, overran |-> FALSE]
    ELSE RlFinSize(RlFinLoop(
            [err |-> b.err, buf |-> RlQsort(b.buf, b.counts0), size |-> b.size,
             rel |-> -1, rel1 |-> -1, prev |-> <<0, 0>>, pos |-> <<0, 0>>, end |-> 0,
             written |-> {}, clobbered |-> FALSE, overran |-> FALSE],
            0, b.counts0, force))

\* the first result_size bytes of the buffer finish() handed over
RlResult(fin) == [words |-> SubSeq(fin.buf, 1, fin.end \div 2), size |-> fin.end]

RECURSIVE RlAddAll(_, _)
\* add() for each pair of a sequence, in order
RlAddAll(b, pairs) ==
    IF pairs = <<>> THEN b
    ELSE RlAddAll(Reloc_add(b, Head(pairs).pos, Head(pairs).type), Tail(pairs))

\* a destructor that releases the buffer whoever owns it
Reloc_dtorAlways(b) == TRUE

\* ~Reloc(): whether delete[] start runs
Reloc_dtor(b) == b.start_did_alloc
\* ------------------------------------------------------------------
\* TLS handling of a 32-bit image: processTls1<LE32> (pass 1) and
\* processTls2<LE32> (pass 2).  sizeof(tls) is 24, cb_size 4, reloc_type 3 and
\* tls_handler_offset_reloc 4.

\* the image the passes run on: ih.imagebase, the TLS descriptor's data area
\* [datastart, dataend) as virtual addresses, where the callback array is when
\* there is one, the address pass 2 places the TLS data at and the offset of the
\* callback handler in the stub
TlsImage ==
    [imagebase |-> 4194304, datastart |-> 4194304 + 8192, dataend |-> 4194304 + 8192 + 20,
     callbacks |-> 4194304 + 12288, newaddr |-> 20480, handler |-> 24576]

\* the relocations the image may carry, ascending: one before the data area,
\* then one for each of its five pointers
TlsRelocs ==
    <<[pos |-> 4096, type |-> 3], [pos |-> 8192, type |-> 3], [pos |-> 8196, type |-> 1],
      [pos |-> 8200, type |-> 3], [pos |-> 8204, type |-> 3], [pos |-> 8208, type |-> 3]>>

\* the values a pointer of the data area may hold: an address inside the data
\* area or one outside it
TlsPointers == {4194304 + 8200, 4194304 + 4096}

\* the elements of a sequence whose index is in the set, in order
TlsSelect(seq, idx) ==
    LET F[i \in 0..Len(seq)] ==
            IF i = 0 THEN <<>>
            ELSE IF i \in idx THEN Append(F[i - 1], seq[i])
            ELSE F[i - 1]
    IN F[Len(seq)]

\* lines 1405-1407 as Interval::add calls: the relocations inside
\* [tlsdatastart, tlsdataend), each as (start = pos, len = type)
TlsRecorded(relocs, tlsdatastart, tlsdataend) ==
    LET F[i \in 0..Len(relocs)] ==
            IF i = 0 THEN <<>>
            ELSE IF relocs[i].pos >= tlsdatastart /\ relocs[i].pos < tlsdataend
            THEN Append(F[i - 1], [start |-> relocs[i].pos, len |-> relocs[i].type])
            ELSE F[i - 1]
    IN F[Len(relocs)]

\* processTls1: everything but the adds to iv.  otls gets the descriptor and
\* the data area, data indexed by the offset from the start of the area.
processTls1(t) ==
    IF ~t.hastls THEN [t EXCEPT !.step = "pass1", !.sotls = 0]
    ELSE [t EXCEPT
            !.step = "pass1",
            !.use_tls_callbacks = t.cb,
            !.sotls = IF t.cb
                      THEN AlignUp(24 + TlsImage.dataend - TlsImage.datastart, 4) + 2 * 4
                      ELSE 24 + TlsImage.dataend - TlsImage.datastart,
            !.otls = [datastart |-> TlsImage.datastart, dataend |-> TlsImage.dataend,
                      callbacks |-> IF t.cb THEN TlsImage.callbacks ELSE 0,
                      data |-> [o \in {0, 4, 8, 12, 16} |->
                                    t.mem[TlsImage.datastart - TlsImage.imagebase + o]],
                      handler |-> 0]]

\* rel->add(pos, type) as pass 2 calls it; from names the statement
TlsRelAdd(t, pos, type, from) ==
    [t EXCEPT !.added = Append(@, [pos |-> pos, type |-> type, from |-> from])]

\* lines 1450-1456: the handler's relocation and those of the descriptor fields
TlsDescAdds(t) ==
    LET a == IF t.tls_handler_offset > 0
             THEN TlsRelAdd(t, t.tls_handler_offset + 4, 3, "handler") ELSE t
        F[k \in 0..4] ==
            IF k = 0 THEN a
            ELSE TlsRelAdd(F[k - 1], TlsImage.newaddr + 4 * (k - 1), 3, "descriptor")
    IN F[IF t.use_tls_callbacks THEN 4 ELSE 3]

\* lines 1461-1470 for the recorded entry e
TlsData(t, e) ==
    IF t.otls.data[e.start - (t.otls.datastart - TlsImage.imagebase)] < t.otls.dataend
        /\ t.otls.data[e.start - (t.otls.datastart - TlsImage.imagebase)] >= t.otls.datastart
    THEN TlsRelAdd(
            [t EXCEPT !.otls.data[e.start - (t.otls.datastart - TlsImage.imagebase)] =
                        @ + TlsImage.newaddr + 24 - t.otls.datastart + TlsImage.imagebase],
            t.otls.data[e.start - (t.otls.datastart - TlsImage.imagebase)]
                + TlsImage.newaddr + 24 - t.otls.datastart,
            e.len, "data")
    ELSE TlsRelAdd(t, t.otls.data[e.start - (t.otls.datastart - TlsImage.imagebase)]
                        - TlsImage.imagebase, e.len, "data")

\* line 1460: ic += 4
TlsDataStep == 4

RECURSIVE TlsDataLoop(_, _, _)
\* lines 1460-1471: for (ic = 0; ic < iv->ivnum; ic += 4)
TlsDataLoop(t, iv, ic) ==
    IF ic >= Len(iv) THEN t
    ELSE TlsDataLoop(TlsData(t, iv[ic + 1]), iv, ic + TlsDataStep)

\* lines 1473-1490
TlsFinish(t) ==
    IF t.use_tls_callbacks
    THEN TlsRelAdd(
            [t EXCEPT !.step = "pass2",
                      !.otls.datastart = TlsImage.newaddr + 24 + TlsImage.imagebase,
                      !.otls.dataend = TlsImage.newaddr + 24 + TlsImage.imagebase
                                          + (t.otls.dataend - t.otls.datastart),
                      !.otls.callbacks = TlsImage.newaddr + t.sotls + TlsImage.imagebase - 2 * 4,
                      !.otls.handler = t.tls_handler_offset + TlsImage.imagebase],
            TlsImage.newaddr + t.sotls - 2 * 4, 3, "callbacks")
    ELSE [t EXCEPT !.step = "pass2",
                   !.otls.datastart = TlsImage.newaddr + 24 + TlsImage.imagebase,
                   !.otls.dataend = TlsImage.newaddr + 24 + TlsImage.imagebase
                                       + (t.otls.dataend - t.otls.datastart),
                   !.otls.callbacks = 0]

\* processTls2(rel, iv, newaddr, imagebase)
processTls2(t, iv) ==
    IF t.sotls = 0 THEN [t EXCEPT !.step = "pass2"]
    ELSE TlsFinish(TlsDataLoop(TlsDescAdds(t), iv, 0))
\* ------------------------------------------------------------------
\* resources leaf by leaf: match(), the loop of processResources and the
\* loop of rebuildResources.
\*
\* A C string is a sequence of character codes ('/' is 47, ',' is 44, '0' is
\* 48, 'A' is 65) read as 0 past its end.  A type or name of a leaf is
\* [named, id, name]: a numbered one has name <<>> for the nullptr, a named one
\* has bit 31 of id set and the UTF-16 units of the string as name.

ResCh(s, i) == IF i >= 1 /\ i <= Len(s) THEN s[i] ELSE 0

\* a numbered type or name
ResNum(n) == [named |-> FALSE, id |-> n, name |-> <<>>]

\* a named type or name; the id is the offset of the string with the top bit
\* set, beyond every number (written with bit 30 here)
ResStr(units) == [named |-> TRUE, id |-> 2^30 + Len(units), name |-> units]

RECURSIVE ResAtoi(_, _, _)
\* atoi(s + i - 1) for a string without blanks and sign
ResAtoi(s, i, acc) ==
    IF ResCh(s, i) >= 48 /\ ResCh(s, i) <= 57
    THEN ResAtoi(s, i + 1, acc * 10 + (ResCh(s, i) - 48))
    ELSE acc

\* strchr(s + k - 1, c): the index of the first c from k on, 0 for nullptr
ResStrchr(s, k, c) ==
    IF \E i \in k..Len(s) : s[i] = c
    THEN CHOOSE i \in k..Len(s) : s[i] = c /\ \A j \in k..(i - 1) : s[j] # c
    ELSE 0

\* Helper::match(num, unistr, mkeep) with mkeep = keep + at - 1: the low byte of
\* each UTF-16 unit is compared
HelperMatch(x, keep, at) ==
    IF ~x.named THEN ResAtoi(keep, at, 0) = x.id
    ELSE /\ \A ic \in 1..Len(x.name) : x.name[ic] % 256 = ResCh(keep, at + ic - 1)
         /\ ResCh(keep, at + Len(x.name)) \in {0, 44, 47}

RECURSIVE ResMatchFrom(_, _, _, _)
\* the for (;;) of match() with keep advanced to index k
ResMatchFrom(type, name, keep, k) ==
    IF HelperMatch(type, keep, k)
        /\ (\/ ResStrchr(keep, k, 47) = 0
            \/ (ResStrchr(keep, k, 44) # 0 /\ ResStrchr(keep, k, 44) < ResStrchr(keep, k, 47))
            \/ HelperMatch(name, keep, ResStrchr(keep, k, 47) + 1))
    THEN TRUE
    ELSE IF ResStrchr(keep, k, 44) = 0 THEN FALSE
    ELSE ResMatchFrom(type, name, keep, ResStrchr(keep, k, 44) + 1)

\* match(itype, ntype, iname, nname, keep)
match(type, name, keep) == ResMatchFrom(type, name, keep, 1)

RECURSIVE ResDigits(_)
\* "%u"
ResDigits(n) == IF n < 10 THEN <<48 + n>> ELSE ResDigits(n \div 10) \o <<48 + (n % 10)>>

\* a leaf of type RT_ICON (3) or RT_GROUP_ICON (14)
ResIsIcon(l) == ~l.type.named /\ l.type.id = 3
ResIsGroup(l) == ~l.type.named /\ l.type.id = 14

\* the indices of the RT_GROUP_ICON leaves, in traversal order
ResGroups(leaves) == {i \in 1..Len(leaves) : ResIsGroup(leaves[i])}

\* lines 1921-1935: keep_icons as [null, s]: nullptr unless compress_icons == 2
\* and there is an RT_GROUP_ICON leaf; else "3/id" for each icon of the first
\* group that has icons, joined by commas
ResKeepIcons(leaves, level) ==
    IF level # 2 \/ ResGroups(leaves) = {} THEN [null |-> TRUE, s |-> <<>>]
    ELSE IF \A g \in ResGroups(leaves) : leaves[g].count = 0
    THEN [null |-> FALSE, s |-> <<>>]
    ELSE LET g == CHOOSE g \in ResGroups(leaves) :
                    /\ leaves[g].count # 0
                    /\ \A h \in ResGroups(leaves) : (h < g) => leaves[h].count = 0
             F[ic \in 0..leaves[g].count] ==
                IF ic = 0 THEN <<>>
                ELSE F[ic - 1] \o <<51, 47>> \o ResDigits(leaves[g].ids[ic]) \o <<44>>
         IN [null |-> FALSE,
             s |-> SubSeq(F[leaves[g].count], 1, Len(F[leaves[g].count]) - 1)]

\* lines 1937-1942: first_icon_id, -1 for (unsigned) -1
ResFirstIconId(leaves, level) ==
    IF level # 1 \/ ResGroups(leaves) = {} THEN -1
    ELSE leaves[CHOOSE g \in ResGroups(leaves) : \A h \in ResGroups(leaves) : g <= h].ids[1]

\* lines 1897-1910: the option defaults processResources stores
ResOptDefaults(o, efi) ==
    [o EXCEPT !.compress_resources = IF o.compress_resources = -1
                                     THEN (IF efi THEN 0 ELSE 1) ELSE @,
              !.compress_icons = IF o.compress_resources = 0
                                    \/ (o.compress_resources = -1 /\ efi) THEN 0 ELSE @,
              !.compress_rt_string = IF o.compress_resources = 0
                                        \/ (o.compress_resources = -1 /\ efi) THEN 0
                                     ELSE IF @ = -1 THEN 1 ELSE @]

\* at compress_icons == 1 the first RT_ICON leaf is left alone, whatever its id
ResIconLevel1Any(l, st, first_icon_id) == st.compress_icon

\* lines 1962-1964: an RT_ICON leaf at compress_icons == 1
ResIconLevel1(l, st, first_icon_id) ==
    IF first_icon_id = -1 \/ first_icon_id = l.name.id THEN st.compress_icon ELSE TRUE

\* lines 1955-1968: do_compress before the keep lists are asked
ResDoCompress(l, o, st, first_icon_id) ==
    IF o.compress_resources = 0 THEN FALSE
    ELSE IF ResIsIcon(l)
    THEN (IF o.compress_icons = 0 THEN FALSE
          ELSE IF o.compress_icons = 1 THEN ResIconLevel1(l, st, first_icon_id)
          ELSE TRUE)
    ELSE IF ResIsGroup(l) THEN st.compress_idir /\ o.compress_icons # 0
    ELSE IF ~l.type.named /\ l.type.id = 6 THEN o.compress_rt_string # 0
    ELSE TRUE   \* a named type; another numbered type follows compress_rt[rtype]

\* "TYPELIB,REGISTRY,16"
ResBuiltinKeep ==
    <<84, 89, 80, 69, 76, 73, 66, 44, 82, 69, 71, 73, 83, 84, 82, 89, 44, 49, 54>>

\* lines 1970-1978: the three keep lists
ResKept(l, keep_icons, keep_resource) ==
    \/ (~keep_icons.null /\ match(l.type, l.name, keep_icons.s))
    \/ match(l.type, l.name, ResBuiltinKeep)
    \/ match(l.type, l.name, keep_resource)

\* lines 1980-2006 for one leaf: out gets whether the leaf is stored
\* uncompressed and the icon count its stored bytes carry
ResLeaf(st, l, do_compress, o) ==
    IF do_compress
    THEN [st EXCEPT !.out = Append(@, [kept |-> FALSE, count |-> l.count])]
    ELSE IF ResIsIcon(l) /\ o.compress_icons = 1
    THEN [st EXCEPT !.out = Append(@, [kept |-> TRUE, count |-> l.count]),
                    !.compress_icon = TRUE]
    ELSE IF ResIsGroup(l)
    THEN [st EXCEPT !.out = Append(@, [kept |-> TRUE,
                                       count |-> IF o.compress_icons = 1 THEN 1 ELSE l.count]),
                    !.icondir_count = IF o.compress_icons = 1 THEN l.count ELSE @,
                    !.compress_idir = TRUE]
    ELSE [st EXCEPT !.out = Append(@, [kept |-> TRUE, count |-> l.count])]

RECURSIVE ResLoop(_, _, _, _, _, _, _)
\* while (res->next()), lines 1953-2007
ResLoop(st, leaves, i, o, keep_icons, first_icon_id, keep_resource) ==
    IF i > Len(leaves) THEN st
    ELSE ResLoop(ResLeaf(st, leaves[i],
                         ResDoCompress(leaves[i], o, st, first_icon_id)
                            /\ ~ResKept(leaves[i], keep_icons, keep_resource),
                         o),
                 leaves, i + 1, o, keep_icons, first_icon_id, keep_resource)

\* processResources(res) from line 1921 on, under the options o after their
\* defaults: the leaves as stored and icondir_count
ResProcess(leaves, o, keep_resource) ==
    ResLoop([compress_icon |-> o.compress_icons > 1, compress_idir |-> o.compress_icons = 3,
             icondir_count |-> 0, out |-> <<>>],
            leaves, 1, o, ResKeepIcons(leaves, o.compress_icons),
            ResFirstIconId(leaves, o.compress_icons), keep_resource)

RECURSIVE ResRebuild(_, _, _, _)
\* while (res.next()), lines 2795-2805: the icon count each leaf has in the
\* unpacked image; a compressed leaf comes back from decompression as it was
ResRebuild(stored, leaves, i, icondir_count) ==
    IF i > Len(leaves) THEN <<>>
    ELSE IF stored[i].kept /\ icondir_count # 0 /\ ResIsGroup(leaves[i])
    THEN <<icondir_count>> \o ResRebuild(stored, leaves, i + 1, 0)
    ELSE IF stored[i].kept
    THEN <<stored[i].count>> \o ResRebuild(stored, leaves, i + 1, icondir_count)
    ELSE <<leaves[i].count>> \o ResRebuild(stored, leaves, i + 1, icondir_count)
\* ------------------------------------------------------------------
\* readFileHeader (lines 155-206): the chained search for the PE header.
\*
\* A file is [hdr, size]: hdr gives the 64 bytes found at some offsets as
\* [kind, relocoffs, p512, m512, nexepos], kind "MZ" for h.mz == 'MZ', "PE" for
\* the signature "PE\0\0" and "other" for anything else; the bytes at every
\* other offset are "other".

FhMaxHops == 20
SizeofExeHeader == 64

FhOther == [kind |-> "other", relocoffs |-> 0, p512 |-> 0, m512 |-> 0, nexepos |-> 0]

\* fi->seek(pe_offset, SEEK_SET); fi->readx(&h, sizeof(h)): readx throws when the
\* file ends before 64 bytes are read
FhReadable(file, off) == off + SizeofExeHeader <= file.size

FhHeaderAt(file, off) == IF off \in DOMAIN file.hdr THEN file.hdr[off] ELSE FhOther

\* line 182: nexepos inside the MZ header
FhOverlap(h) == h.nexepos # 0 /\ h.nexepos < SizeofExeHeader

\* lines 189-191; the conditional takes the whole sum as its condition
FhDelta(h) ==
    IF h.relocoffs >= 64 THEN h.nexepos
    ELSE IF (h.p512 * 512 + h.m512) - h.m512 # 0 THEN 512
    ELSE h.nexepos

\* a test of the delta that lets pe_offset run past the end of the file
FhBadDeltaWrapOnly(pe_offset, delta, file_size_u) == U32(pe_offset + delta) < delta

\* lines 193-194
FhBadDelta(pe_offset, delta, file_size_u) ==
    \/ U32(pe_offset + delta) < delta
    \/ U32(pe_offset + delta) > file_size_u

FhDone(st, ret, err) == [st EXCEPT !.pc = "done", !.ret = ret, !.err = err]

\* one pass of the body of for (ic = 0; ic < 20; ic++), lines 177-204
readFileHeaderHop(st) ==
    IF ~FhReadable(st.file, st.pe_offset) THEN FhDone(st, "none", "IOException")
    ELSE LET h == FhHeaderAt(st.file, st.pe_offset)
             s1 == [st EXCEPT !.reads = @ + 1]
         IN IF h.kind = "MZ"
            THEN IF FhOverlap(h) THEN FhDone(s1, "none", "PE and MZ header overlap")
                 ELSE IF FhBadDelta(st.pe_offset, FhDelta(h), st.file.size)
                 THEN FhDone(s1, "none", "bad PE delta")
                 ELSE [s1 EXCEPT !.pe_offset = U32(@ + FhDelta(h)), !.ic = @ + 1,
                                 !.deltas = Append(@, FhDelta(h))]
            ELSE IF h.kind = "PE" THEN FhDone(s1, "format", "none")
            ELSE FhDone(s1, "0", "none")

\* the state readFileHeader starts the loop in (line 175)
FhStart(file) ==
    [pc |-> "loop", file |-> file, pe_offset |-> 0, ic |-> 0, reads |-> 0, deltas |-> <<>>,
     ret |-> "none", err |-> "none"]
\* ------------------------------------------------------------------
\* the resource directory in memory: Resource::convert, build and clear
\* (lines 1666-1841) and the directory's way through processResources and
\* rebuildResources.
\*
\* Memory is a sequence of 4-byte cells [k, a, b]; the cell at offset off (in
\* cells) is mem[off + 1].  A res_dir of n entries is 4 + 2n cells: three of
\* flags, timedate and version, one holding namedentr (a) and identr (b) at
\* byte offset 12, then for each entry tnl (a = 1 for a name, b the id or the
\* offset of the string) and child (a = 1 for a subdirectory, b the offset).
\* A res_data is 4 cells: offset (b, an RVA), size (b, in cells), codepage,
\* reserved.  A string of one UTF-16 unit is one cell.  Zero bytes read as 0 in
\* every field.

RcCell(k, a, b) == [k |-> k, a |-> a, b |-> b]
RcZero == RcCell("zero", 0, 0)
RcFill == RcCell("fill", 0, 0)

RcAt(mem, off) == IF off >= 0 /\ off < Len(mem) THEN mem[off + 1] ELSE RcZero

\* memcpy(mem + off, cells, Len(cells))
RcWrite(mem, off, cells) ==
    [i \in 1..Len(mem) |->
        IF i > off /\ i <= off + Len(cells) THEN cells[i - off] ELSE mem[i]]

\* the RVA of the resource directory in the image and of the resource section
\* pack0 places (newaddr); the image buffer starts at rvamin = 0
RcVaddr == 2
RcNewaddr == 64

RECURSIVE RcConvert(_, _, _)
\* Resource::convert(start + off, parent, level) with start = mem + base, the
\* child's id and name assigned as its parent does (lines 1697-1709)
RcConvert(mem, off, level) ==
    IF level = 3
    THEN [leaf |-> TRUE, id |-> 0, name |-> <<>>, nnamed |-> 0, kids |-> <<>>,
          offset |-> RcAt(mem, off).b, size |-> RcAt(mem, off + 1).b, newoffset |-> 0]
    ELSE [leaf |-> FALSE, id |-> 0, name |-> <<>>, nnamed |-> RcAt(mem, off + 3).a,
          kids |-> [i \in 1..(RcAt(mem, off + 3).a + RcAt(mem, off + 3).b) |->
                       [RcConvert(mem, RcAt(mem, off + 3 + 2 * i).b, level + 1) EXCEPT
                           !.id = RcAt(mem, off + 2 + 2 * i).b
                                    + (IF RcAt(mem, off + 2 + 2 * i).a = 1 THEN UINT_MOD ELSE 0),
                           !.name = IF RcAt(mem, off + 2 + 2 * i).a = 1
                                    THEN <<RcAt(mem, RcAt(mem, off + 2 + 2 * i).b).b>>
                                    ELSE <<>>]],
          offset |-> 0, size |-> 0, newoffset |-> 0]

RECURSIVE RcSum(_, _)
RcSum(f, n) == IF n = 0 THEN 0 ELSE f[n] + RcSum(f, n - 1)

RECURSIVE RcDsize(_)
\* dsize as convert accumulates it, in cells
RcDsize(node) ==
    IF node.leaf THEN 4
    ELSE 4 + 2 * Len(node.kids)
           + RcSum([i \in 1..Len(node.kids) |-> RcDsize(node.kids[i])], Len(node.kids))

RECURSIVE RcSsize(_)
\* ssize: one string for every named entry
RcSsize(node) ==
    IF node.leaf THEN 0
    ELSE RcSum([i \in 1..Len(node.kids) |->
                   (IF node.kids[i].name # <<>> THEN 1 ELSE 0) + RcSsize(node.kids[i])],
               Len(node.kids))

\* Resource::dirsize()
RcDirsize(node) == RcDsize(node) + RcSsize(node)

RECURSIVE RcLeaves(_)
\* the leaves in the order next() visits them
RcLeaves(node) ==
    IF node.leaf THEN <<node>>
    ELSE LET F[i \in 0..Len(node.kids)] ==
                 IF i = 0 THEN <<>> ELSE F[i - 1] \o RcLeaves(node.kids[i])
         IN F[Len(node.kids)]

RECURSIVE RcSetNew(_, _)
\* res->newoffs() = g[offset] for every leaf listed in g
RcSetNew(node, g) ==
    IF node.leaf
    THEN (IF node.offset \in DOMAIN g THEN [node EXCEPT !.newoffset = g[node.offset]] ELSE node)
    ELSE [node EXCEPT !.kids = [i \in 1..Len(node.kids) |-> RcSetNew(node.kids[i], g)]]

RECURSIVE RcBuildNode(_, _, _)
RECURSIVE RcBuildKids(_, _, _, _, _)
\* Resource::build(node, bpos, spos, level), st = [mem, bpos, spos]
RcBuildNode(node, st, level) ==
    IF level = 3
    THEN [st EXCEPT
            !.mem = RcWrite(st.mem, st.bpos,
                        <<RcCell("doff", 0, IF node.newoffset # 0 THEN node.newoffset
                                            ELSE node.offset),
                          RcCell("dsz", 0, node.size), RcCell("dpad", 0, 0),
                          RcCell("dpad", 0, 0)>>),
            !.bpos = @ + 4]
    ELSE RcBuildKids(node, 1, st.bpos,
            [st EXCEPT
                !.mem = RcWrite(st.mem, st.bpos,
                            <<RcCell("hdr", 0, 0), RcCell("hdr", 0, 0), RcCell("hdr", 0, 0),
                              RcCell("cnt", node.nnamed, Len(node.kids) - node.nnamed)>>),
                !.bpos = @ + 4 + 2 * Len(node.kids)],
            level)

\* the loop over branch->children (lines 1750-1765); b0 is where the res_dir is
RcBuildKids(node, ic, b0, st, level) ==
    IF ic > Len(node.kids) THEN st
    ELSE RcBuildKids(node, ic + 1, b0,
            RcBuildNode(node.kids[ic],
                IF node.kids[ic].name # <<>>
                THEN [st EXCEPT
                        !.mem = RcWrite(RcWrite(st.mem, b0 + 2 + 2 * ic,
                                    <<RcCell("tnl", 1, st.spos),
                                      RcCell("child", IF level < 2 THEN 1 ELSE 0, st.bpos)>>),
                                    st.spos, <<RcCell("str", 1, node.kids[ic].name[1])>>),
                        !.spos = @ + 1]
                ELSE [st EXCEPT
                        !.mem = RcWrite(st.mem, b0 + 2 + 2 * ic,
                                    <<RcCell("tnl", 0, node.kids[ic].id),
                                      RcCell("child", IF level < 2 THEN 1 ELSE 0, st.bpos)>>)],
                level + 1),
            level)

\* Resource::build(): the new directory, dirsize() cells
RcBuild(root) ==
    RcBuildNode(root, [mem |-> [i \in 1..RcDirsize(root) |-> RcZero], bpos |-> 0,
                       spos |-> RcDsize(root)], 0).mem

RECURSIVE RcClearIv(_, _, _)
\* Resource::clear(node, level, iv): the ranges handed to iv->add, offsets from
\* start = mem + RcVaddr
RcClearIv(mem, off, level) ==
    IF level = 3 THEN <<[start |-> off, len |-> 4]>>
    ELSE LET n == RcAt(mem, RcVaddr + off + 3).a + RcAt(mem, RcVaddr + off + 3).b
             F[i \in 0..n] ==
                IF i = 0 THEN <<>>
                ELSE F[i - 1] \o RcClearIv(mem, RcAt(mem, RcVaddr + off + 3 + 2 * i).b, level + 1)
         IN Append(F[n], [start |-> off, len |-> 4 + 2 * n])

\* Resource::clear(): the image afterwards and the value returned
RcClear(mem) ==
    LET iv == flatten(RcClearIv(mem, 0, 0))
    IN IF Len(iv) = 1
       THEN [ret |-> TRUE,
             mem |-> RcWrite(mem, RcVaddr + iv[1].start, [i \in 1..iv[1].len |-> RcZero])]
       ELSE [ret |-> FALSE, mem |-> mem]

RECURSIVE RcKeepLeaves(_, _, _, _)
\* the loop of processResources(res) over the leaves that are not compressed
\* (lines 2003-2008): st = [ibuf, data, g], data the cells behind the new
\* directory in oresources, g the newoffs() of the leaves stored
RcKeepLeaves(leaves, keep, dirsize, st) ==
    IF leaves = <<>> THEN st
    ELSE IF Head(leaves).offset \notin keep
         THEN RcKeepLeaves(Tail(leaves), keep, dirsize, st)
         ELSE RcKeepLeaves(Tail(leaves), keep, dirsize,
                [ibuf |-> RcWrite(st.ibuf, Head(leaves).offset,
                              [i \in 1..Head(leaves).size |-> RcFill]),
                 data |-> st.data \o <<RcCell("orig", 0, Head(leaves).offset)>>
                            \o [i \in 1..Head(leaves).size |->
                                   RcAt(st.ibuf, Head(leaves).offset + i - 1)],
                 g |-> [o \in DOMAIN st.g \cup {Head(leaves).offset} |->
                          IF o = Head(leaves).offset THEN dirsize + Len(st.data) + 1
                          ELSE st.g[o]]])

RcNoOffsets == [o \in {} |-> 0]

\* the resource directory of an image, as Resource::init reads it
RcTree(image) == RcConvert(SubSeq(image, RcVaddr + 1, Len(image)), 0, 0)

\* processResources(res): ores starts at oresources + res->dirsize()
RcPass1(image, keep) ==
    RcKeepLeaves(RcLeaves(RcTree(image)), keep, RcDirsize(RcTree(image)),
                 [ibuf |-> image, data |-> <<>>, g |-> RcNoOffsets])

\* processResources(res, newaddr): newoffs() += newaddr, build, memcpy
RcPass2(tree, p1) ==
    RcBuild(RcSetNew(tree, [o \in DOMAIN p1.g |-> p1.g[o] + RcNewaddr])) \o p1.data

RECURSIVE RcRestoreLeaves(_, _, _)
\* the loop of rebuildResources (lines 2796-2806): st = [obuf, g]
RcRestoreLeaves(leaves, ores, st) ==
    IF leaves = <<>> THEN st
    ELSE IF ~(Head(leaves).offset > RcNewaddr)
         THEN RcRestoreLeaves(Tail(leaves), ores, st)
         ELSE RcRestoreLeaves(Tail(leaves), ores,
                [obuf |-> RcWrite(st.obuf, RcAt(ores, Head(leaves).offset - RcNewaddr - 1).b,
                              [i \in 1..Head(leaves).size |->
                                  RcAt(ores, Head(leaves).offset - RcNewaddr + i - 1)]),
                 g |-> [o \in DOMAIN st.g \cup {Head(leaves).offset} |->
                          IF o = Head(leaves).offset
                          THEN RcAt(ores, Head(leaves).offset - RcNewaddr - 1).b
                          ELSE st.g[o]]])

\* the rebuilt directory copied over the original place without the test
RcWriteBackAlways(obuf, p) == [obuf |-> RcWrite(obuf, RcVaddr, p), wrote |-> TRUE]

\* if the word at byte 12 of the original directory is zero, the rebuilt one is
\* copied there (lines 2807-2812)
RcWriteBack(obuf, p) ==
    IF RcAt(obuf, RcVaddr + 3).a = 0 /\ RcAt(obuf, RcVaddr + 3).b = 0
    THEN [obuf |-> RcWrite(obuf, RcVaddr, p), wrote |-> TRUE]
    ELSE [obuf |-> obuf, wrote |-> FALSE]

\* rebuildResources on the decompressed image and the packed resource section
rebuildResourcesDir(image, ores) ==
    RcWriteBack(RcRestoreLeaves(RcLeaves(RcConvert(ores, 0, 0)), ores,
                                [obuf |-> image, g |-> RcNoOffsets]).obuf,
                RcBuild(RcSetNew(RcConvert(ores, 0, 0),
                            RcRestoreLeaves(RcLeaves(RcConvert(ores, 0, 0)), ores,
                                [obuf |-> image, g |-> RcNoOffsets]).g)))
\* ------------------------------------------------------------------
\* processImports0 (pefile.cpp 939-1170): the descriptors collected, sorted,
\* added to the import linker and emitted as the preprocessed import stream.
\*
\* A descriptor is [name, entries]; an entry of its lookup table is
\* [byname, ord, name]: ord_mask set and the low 16 bits ord, or the name the
\* entry points to.

\* kernelDll(): "kernel32.dll"
kernelDll == <<107, 101, 114, 110, 101, 108, 51, 50, 46, 100, 108, 108>>

StrLoadLibraryA == <<76, 111, 97, 100, 76, 105, 98, 114, 97, 114, 121, 65>>
StrGetProcAddress == <<71, 101, 116, 80, 114, 111, 99, 65, 100, 100, 114, 101, 115, 115>>
StrExitProcess == <<69, 120, 105, 116, 80, 114, 111, 99, 101, 115, 115>>
StrVirtualProtect == <<86, 105, 114, 116, 117, 97, 108, 80, 114, 111, 116, 101, 99, 116>>

\* strcasecmp
strcasecmp(a, b) ==
    strcmp([i \in 1..Len(a) |-> tolower(a[i])], [i \in 1..Len(b) |-> tolower(b[i])])

RECURSIVE ImpShname(_, _)
\* the shortest import name of a lookup table, the first among equals; <<>>
\* stands for nullptr (lines 1031-1035)
ImpShname(entries, sh) ==
    IF entries = <<>> THEN sh
    ELSE ImpShname(Tail(entries),
            IF Head(entries).byname /\ (sh = <<>> \/ Len(Head(entries).name) < Len(sh))
            THEN Head(entries).name ELSE sh)

RECURSIVE ImpOrdinal(_, _)
\* dlls[ic].ordinal = *tarr & 0xffff for every entry by ordinal (line 1027)
ImpOrdinal(entries, ord) ==
    IF entries = <<>> THEN ord
    ELSE ImpOrdinal(Tail(entries), IF Head(entries).byname THEN ord ELSE Head(entries).ord)

\* the UDll of descriptor ic (lines 1009-1038)
ImpUDll(descs, ic) ==
    [name |-> descs[ic].name,
     shname |-> ImpShname(descs[ic].entries, <<>>),
     ordinal |-> ImpOrdinal(descs[ic].entries, 0),
     entries |-> descs[ic].entries,
     original_position |-> ic - 1,
     isk32 |-> strcasecmp(kernelDll, descs[ic].name) = 0]

\* UDll::compare (lines 971-998)
UDllCompare(a, b) ==
    IF a.original_position = b.original_position THEN 0
    ELSE IF a.isk32 # b.isk32 THEN (IF a.isk32 THEN -1 ELSE 1)
    ELSE IF (a.entries # <<>>) # (b.entries # <<>>) THEN (IF a.entries # <<>> THEN -1 ELSE 1)
    ELSE IF strcasecmp(a.name, b.name) # 0 THEN strcasecmp(a.name, b.name)
    ELSE IF (a.ordinal # 0) # (b.ordinal # 0) THEN (IF a.ordinal # 0 THEN -1 ELSE 1)
    ELSE IF a.shname # <<>> /\ b.shname # <<>> /\ Len(a.shname) # Len(b.shname)
         THEN Len(a.shname) - Len(b.shname)
    ELSE IF a.shname # <<>> /\ b.shname # <<>> /\ strcmp(a.shname, b.shname) # 0
         THEN strcmp(a.shname, b.shname)
    ELSE IF (a.shname # <<>>) # (b.shname # <<>>) THEN (IF a.shname # <<>> THEN -1 ELSE 1)
    ELSE IF a.original_position < b.original_position THEN -1 ELSE 1

RECURSIVE ImpInsert(_, _)
ImpInsert(sorted, x) ==
    IF sorted = <<>> THEN <<x>>
    ELSE IF UDllCompare(x, Head(sorted)) <= 0 THEN <<x>> \o sorted
    ELSE <<Head(sorted)>> \o ImpInsert(Tail(sorted), x)

RECURSIVE ImpSort(_)
\* upx_qsort(idlls, dllnum, sizeof(*idlls), UDll::compare)
ImpSort(dlls) == IF dlls = <<>> THEN <<>> ELSE ImpInsert(ImpSort(Tail(dlls)), Head(dlls))

\* addStubImports (lines 918-924)
addStubImports(il, tsize, dll) ==
    IlAddAll(il, tsize,
        <<[dll |-> kernelDll, proc |-> StrLoadLibraryA, ordinal |-> 0],
          [dll |-> kernelDll, proc |-> StrGetProcAddress, ordinal |-> 0]>>
        \o (IF dll THEN <<>>
            ELSE <<[dll |-> kernelDll, proc |-> StrExitProcess, ordinal |-> 0]>>)
        \o <<[dll |-> kernelDll, proc |-> StrVirtualProtect, ordinal |-> 0]>>)

\* ImportLinker::hasDll
hasDll(il, dll) == findSection(il.sections, name_for_dll(dll, dll_name_id)) # 0

RECURSIVE ImpAddOrdinals(_, _, _)
\* for every entry by ordinal: ilinker->add(kernelDll(), *tarr & 0xffff)
ImpAddOrdinals(il, tsize, entries) ==
    IF entries = <<>> THEN il
    ELSE ImpAddOrdinals(
            IF Head(entries).byname THEN il
            ELSE ILaddPair(il, tsize, [dll |-> kernelDll, proc |-> <<>>,
                                       ordinal |-> Head(entries).ord]),
            tsize, Tail(entries))

\* the kernel branch of the loop (lines 1053-1064); the literal "kernel32.dll"
\* of line 1057 is what kernelDll() returns
ImpAddKernel(st, tsize, d) ==
    IF strcasecmp(d.name, kernelDll) # 0 \/ d.ordinal = 0 THEN st
    ELSE [il |-> ImpAddOrdinals(st.il, tsize, d.entries),
          kernel32ordinal |-> st.kernel32ordinal \/ \E i \in 1..Len(d.entries) : ~d.entries[i].byname]

\* the other branch (lines 1065-1070)
ImpAddOther(st, tsize, d) ==
    IF hasDll(st.il, d.name) THEN st
    ELSE [st EXCEPT !.il =
            IF d.shname # <<>> /\ d.ordinal = 0
            THEN ILaddPair(st.il, tsize, [dll |-> d.name, proc |-> d.shname, ordinal |-> 0])
            ELSE ILaddPair(st.il, tsize, [dll |-> d.name, proc |-> <<>>, ordinal |-> d.ordinal])]

RECURSIVE ImpAddLoop(_, _, _)
\* the loop over idlls that fills the linker (lines 1052-1071)
ImpAddLoop(st, tsize, idlls) ==
    IF idlls = <<>> THEN st
    ELSE ImpAddLoop(IF Head(idlls).isk32 THEN ImpAddKernel(st, tsize, Head(idlls))
                    ELSE ImpAddOther(st, tsize, Head(idlls)),
                    tsize, Tail(idlls))

\* ImportLinker::getThunk(dll, proc, separator): the section's index, 0 if none
getThunk(secs, dll, proc, sep) == findSection(secs, name_for_proc(dll, proc, thunk_id, sep))

\* ImportLinker::getAddress(dll, ordinal) (lines 889-899): the section found
\* stands for its offset
getAddressOrd(secs, dll, ordinal) ==
    IF ~(ordinal > 0 /\ ordinal < 65536)
    THEN [err |-> "assert", thunk |-> 0]
    ELSE IF getThunk(secs, dll, OrdString(ordinal), thunk_separator_first) # 0
    THEN [err |-> "none",
          thunk |-> getThunk(secs, dll, OrdString(ordinal), thunk_separator_first)]
    ELSE IF getThunk(secs, dll, OrdString(ordinal), thunk_separator) # 0
    THEN [err |-> "none", thunk |-> getThunk(secs, dll, OrdString(ordinal), thunk_separator)]
    ELSE [err |-> "entry not found", thunk |-> 0]

\* one entry of a lookup table written to ppi (lines 1084-1103)
ImpEmitEntry(st, d, e) ==
    IF st.err # "none" THEN st
    ELSE IF e.byname
    THEN [st EXCEPT !.out = Append(@, [tag |-> 1, dll |-> d.name, ord |-> 0, thunk |-> 0])]
    ELSE IF d.isk32 /\ st.kernel32ordinal
    THEN [st EXCEPT !.out = IF getAddressOrd(st.secs, d.name, e.ord).err = "none"
                            THEN Append(@, [tag |-> 254, dll |-> d.name, ord |-> e.ord,
                                            thunk |-> getAddressOrd(st.secs, d.name, e.ord).thunk])
                            ELSE @,
                    !.asked = Append(@, [dll |-> d.name, ord |-> e.ord]),
                    !.err = getAddressOrd(st.secs, d.name, e.ord).err]
    ELSE [st EXCEPT !.out = Append(@, [tag |-> 255, dll |-> d.name, ord |-> e.ord, thunk |-> 0])]

RECURSIVE ImpEmitEntries(_, _, _)
ImpEmitEntries(st, d, entries) ==
    IF entries = <<>> THEN st
    ELSE ImpEmitEntries(ImpEmitEntry(st, d, Head(entries)), d, Tail(entries))

RECURSIVE ImpEmitLoop(_, _)
\* the loop that creates the preprocessed data (lines 1078-1115)
ImpEmitLoop(st, idlls) ==
    IF idlls = <<>> THEN st
    ELSE ImpEmitLoop(ImpEmitEntries(st, Head(idlls), Head(idlls).entries), Tail(idlls))
\* ------------------------------------------------------------------
\* the 32-bit processRelocs (pefile.cpp 458-556) on the records of a relocation
\* directory, and rebuildRelocs (2692-2741) on what it left.  A record is
\* [pos, type]; orelocs is the codec's output for the type-3 list, kept as the
\* list itself, followed by 32-bit words.

\* rvamin and ih.imagesize of the image the records belong to
PrRvamin == 4 * 1024
PrImagesize == 12 * 1024

RECURSIVE PrFix(_, _)
\* fix[type]: pos - rvamin of the records of that type inside the image, in
\* the order rel.next() delivers them (lines 501-508)
PrFix(records, type) ==
    IF records = <<>> THEN <<>>
    ELSE (IF Head(records).pos < PrImagesize /\ Head(records).type = type
          THEN <<U32(Head(records).pos - PrRvamin)>> ELSE <<>>)
         \o PrFix(Tail(records), type)

RECURSIVE PrInsert(_, _)
PrInsert(sorted, x) ==
    IF sorted = <<>> THEN <<x>>
    ELSE IF x <= Head(sorted) THEN <<x>> \o sorted
    ELSE <<Head(sorted)>> \o PrInsert(Tail(sorted), x)

RECURSIVE PrSort(_)
\* upx_qsort(fix[ic], xcounts[ic], 4, le32_compare)
PrSort(f) == IF f = <<>> THEN <<>> ELSE PrInsert(PrSort(Tail(f)), Head(f))

RECURSIVE PrUnique(_, _)
\* the loop that removes duplicated records (lines 513-517); prev starts as ~0u
PrUnique(f, prev) ==
    IF f = <<>> THEN <<>>
    ELSE IF Head(f) # prev THEN <<Head(f)>> \o PrUnique(Tail(f), Head(f))
    ELSE PrUnique(Tail(f), prev)

PrKept(records, type) == PrUnique(PrSort(PrFix(records, type)), UINT_MOD - 1)

\* memcpy(orelocs + sorelocs, fix[ic], 4 * xcounts[ic]); set_le32(..., 0), the
\* zero counted when the list is not empty (lines 546-554)
PrAppend(list) == IF list = <<>> THEN <<>> ELSE list \o <<0>>

\* PeFile32::processRelocs
processRelocs32(records, strip) ==
    IF strip \/ records = <<>>
    THEN [opt3 |-> <<>>, words |-> <<>>, big |-> 0, sorelocs |-> 0]
    ELSE [opt3 |-> PrKept(records, 3),
          words |-> PrAppend(PrKept(records, 2)) \o PrAppend(PrKept(records, 1)),
          big |-> (IF PrKept(records, 2) # <<>> THEN 4 ELSE 0)
                  + (IF PrKept(records, 1) # <<>> THEN 2 ELSE 0),
          sorelocs |-> optimizeReloc(Len(PrKept(records, 3)))
                       + 4 * Len(PrAppend(PrKept(records, 2)) \o PrAppend(PrKept(records, 1)))]

\* the word q points to; the loops stop at the zero that ends the words, at the
\* latest, so the words behind are not read
PrWord(words, q) == IF q >= 1 /\ q <= Len(words) THEN words[q] ELSE 0

RECURSIVE PrWhile(_, _, _)
\* while (*q) rel.add(*q++ + rvamin, type): the adds and q afterwards
PrWhile(words, q, type) ==
    IF PrWord(words, q) = 0 THEN [adds |-> <<>>, q |-> q]
    ELSE [adds |-> <<[pos |-> U32(PrWord(words, q) + PrRvamin), type |-> type]>>
                   \o PrWhile(words, q + 1, type).adds,
          q |-> PrWhile(words, q + 1, type).q]

RECURSIVE PrWhilePre(_, _)
\* while (*++q) rel.add(*q + rvamin, 1)
PrWhilePre(words, q) ==
    IF PrWord(words, q + 1) = 0 THEN <<>>
    ELSE <<[pos |-> U32(PrWord(words, q + 1) + PrRvamin), type |-> 1]>>
         \o PrWhilePre(words, q + 1)

\* the 16-bit relocations rebuildRelocs adds (lines 2724-2732)
PrAdd16(words, big) ==
    IF (big \div 2) % 4 = 0 THEN <<>>
    ELSE PrWhile(words, 1, IF (big \div 4) % 2 = 1 THEN 2 ELSE 1).adds
         \o (IF (big \div 2) % 4 = 3
             THEN PrWhilePre(words, PrWhile(words, 1, 2).q)
             ELSE <<>>)

\* the entries rebuildRelocs adds for the list unoptimizeReloc gives back
\* (lines 2734-2742), the codec taken as the inverse of optimizeReloc
PrAdd32(opt3) == [i \in 1..Len(opt3) |-> [pos |-> U32(PrRvamin + opt3[i]), type |-> 3]]

\* PeFile::rebuildRelocs with bits = 32: every rel.add, in order
rebuildRelocs32(o) == PrAdd16(o.words, o.big) \o PrAdd32(o.opt3)

\* ------------------------------------------------------------------
\* the state of each component before it is used

IvIdle ==
    /\ ivarr = <<>>
    /\ ivAdded = <<>>
    /\ ivFlat = 0

IlIdle ==
    /\ thunk_size = 4
    /\ sections = <<>>
    /\ symbols = <<>>
    /\ relocations = <<>>
    /\ output = <<>>
    /\ ilBuilt = FALSE
    /\ ilOrder = <<>>

PeNoOp ==
    [op |-> "none", err |-> "none", ret |-> "none", reads |-> <<>>,
     oh |-> NoFile, osection |-> <<>>]

PeDefaultOpt ==
    [force |-> FALSE, exact |-> FALSE, strip_relocs |-> -1,
     compress_resources |-> -1, compress_icons |-> 2,
     compress_rt_string |-> -1, compress_exports |-> 1]

PeIdle ==
    /\ opt = PeDefaultOpt
    /\ opt0 = PeDefaultOpt
    /\ fi = NoFile
    /\ fiOrigin = "none"
    /\ fiSource = NoFile
    /\ fo = NoFile
    /\ peLast = PeNoOp
    /\ nfiles = 0


\* no stream handed to a Reloc reader yet
RrIdle ==
    rr = [src |-> [words |-> <<>>, size |-> 0], step |-> "idle", err |-> "none",
          pairs |-> <<>>, built |-> [err |-> "none", words |-> <<>>, size |-> 0],
          reread |-> [err |-> "none", pairs |-> <<>>]]

\* a builder that was never constructed
RlNoBuilder ==
    [start_did_alloc |-> FALSE, counts0 |-> 0, size |-> 0, buf |-> <<>>, err |-> "none"]

\* finish() not called
RlNoFinish ==
    [called |-> FALSE, err |-> "none", clobbered |-> FALSE, overran |-> FALSE]

\* no Reloc builder constructed, oxrelocs == nullptr (line 85)
RlNone ==
    [alive |-> FALSE, b |-> RlNoBuilder, added |-> <<>>, fin |-> RlNoFinish,
     oxrelocs |-> [owned |-> FALSE, words |-> <<>>, size |-> 0],
     thrown |-> "none", aborted |-> FALSE, late |-> "none",
     constructed |-> 0, frees |-> 0, freedBy |-> "none"]

RlIdle == rl = RlNone

\* no image handed to the TLS passes
TlsNone ==
    [step |-> "idle", hastls |-> FALSE, relocs |-> <<>>, mem |-> <<>>, cb |-> FALSE,
     use_tls_callbacks |-> FALSE, sotls |-> 0, tls_handler_offset |-> 0,
     otls |-> [datastart |-> 0, dataend |-> 0, callbacks |-> 0, data |-> <<>>, handler |-> 0],
     added |-> <<>>]

TlsIdle == tls = TlsNone

\* no resource tree handed to processResources
RsNone ==
    [step |-> "idle", leaves |-> <<>>, keep |-> <<>>, stored |-> <<>>, icondir_count |-> 0,
     counts |-> <<>>, probe |-> [asked |-> FALSE, type |-> ResNum(0), name |-> ResNum(0),
                                 result |-> FALSE]]

RsIdle == rs = RsNone

\* readFileHeader not called
FhIdle == fh = [FhStart([hdr |-> <<>>, size |-> 0]) EXCEPT !.pc = "idle"]

\* processImports0 not called
ImpNone ==
    [step |-> "idle", descs |-> <<>>, isdll |-> FALSE, idlls |-> <<>>, added |-> <<>>,
     secs |-> <<>>, kernel32ordinal |-> FALSE, out |-> <<>>, asked |-> <<>>, err |-> "none"]

\* processRelocs not called
PrNone ==
    [step |-> "idle", records |-> <<>>, strip |-> FALSE,
     orelocs |-> [opt3 |-> <<>>, words |-> <<>>, big |-> 0, sorelocs |-> 0], adds |-> <<>>]

\* no resource directory handed to processResources
RcNone ==
    [step |-> "idle", orig |-> <<>>, keep |-> {}, ibuf |-> <<>>, ores |-> <<>>,
     zeroed |-> FALSE, obuf |-> <<>>, wrote |-> FALSE]

RcIdle == rc = RcNone

ImpIdle == imp = ImpNone

PrIdle == pr = PrNone

\* the base buffer before any clear(): IvBufLen bytes, none of them zero
IvBaseNew ==
    [mem |-> [i \in 1..IvBufLen |-> i], cleared |-> FALSE, before |-> <<>>, added |-> <<>>,
     arr |-> <<>>, flat |-> 0]

IvBaseIdle == ivBase = IvBaseNew

MoreIdle == FhIdle /\ RcIdle /\ ImpIdle /\ PrIdle /\ IvBaseIdle
IvInit == MoreIdle /\ IvIdle /\ IlIdle /\ PeIdle /\ RrIdle /\ RlIdle /\ TlsIdle /\ RsIdle

\* Interval::add(unsigned start, unsigned len)
IvAdd ==
    /\ Len(ivAdded) < MaxIvAdds
    /\ \E s \in IvStarts, l \in IvLens :
          /\ ivarr' = Append(ivarr, [start |-> s, len |-> l])
          /\ ivAdded' = Append(ivAdded, [start |-> s, len |-> l])
    /\ ivFlat' = 0
    /\ UNCHANGED ivRest

\* Interval::flatten()
IvFlatten ==
    /\ ivarr' = flatten(ivarr)
    /\ ivFlat' = IF ivFlat < 2 THEN ivFlat + 1 ELSE ivFlat
    /\ UNCHANGED ivAdded
    /\ UNCHANGED ivRest

\* Interval::clear(), called once on a buffer
IvClear ==
    /\ ~ivBase.cleared
    /\ ivBase' = [mem |-> clear(ivBase.mem, ivarr), cleared |-> TRUE, before |-> ivBase.mem,
                  added |-> ivAdded, arr |-> ivarr, flat |-> ivFlat]
    /\ UNCHANGED ivBaseRest

IvNext == IvAdd \/ IvFlatten \/ IvClear

SpecInterval == IvInit /\ [][IvNext]_vars

\* no add() had start+len exceeding the unsigned range
IvNoWrap == \A i \in 1..Len(ivAdded) : ivAdded[i].start + ivAdded[i].len < UINT_MOD

\* C9: after flatten() following any adds without unsigned wrap, the ranges are in
\* ascending start order and start[i]+len[i] < start[i+1] for every adjacent pair
FlattenSortedDisjoint ==
    (ivFlat > 0 /\ IvNoWrap) =>
        \A i \in 1..(Len(ivarr) - 1) :
            /\ ivarr[i].start < ivarr[i + 1].start
            /\ ivarr[i].start + ivarr[i].len < ivarr[i + 1].start

\* three added ranges that chain (overlap, then touch) were coalesced into one
FlattenSortedDisjointWitness ==
    /\ ivFlat = 1
    /\ IvNoWrap
    /\ Len(ivAdded) = 3
    /\ Len(ivarr) = 1
    /\ ivarr[1] = [start |-> 0, len |-> 4]

\* C10: flatten() called again with no add() in between changes nothing
FlattenIdempotent == [][(ivFlat > 0 /\ ivFlat' > 0) => ivarr' = ivarr]_vars

\* flatten() ran twice in a row on three added ranges it had coalesced into two
FlattenIdempotentWitness ==
    /\ ivFlat = 2
    /\ Len(ivAdded) = 3
    /\ Len(ivarr) = 2

IlInit ==
    /\ MoreIdle
    /\ IvIdle
    /\ PeIdle
    /\ RrIdle
    /\ RlIdle
    /\ TlsIdle
    /\ RsIdle
    /\ thunk_size \in {4, 8}
    /\ sections = IlNew.sections
    /\ symbols = IlNew.symbols
    /\ relocations = IlNew.relocations
    /\ output = <<>>
    /\ ilBuilt = FALSE
    /\ ilOrder = <<>>

\* ilinker->add(dll, proc) / ilinker->add(dll, ordinal)
IlAdd ==
    /\ ~ilBuilt
    /\ Len(ilOrder) < MaxIlAdds
    /\ \E p \in IlPairs :
          LET il == ILaddPair([sections |-> sections, symbols |-> symbols,
                               relocations |-> relocations], thunk_size, p)
          IN /\ sections' = il.sections
             /\ symbols' = il.symbols
             /\ relocations' = il.relocations
             /\ ilOrder' = Append(ilOrder, p)
    /\ UNCHANGED <<thunk_size, output, ilBuilt>>
    /\ UNCHANGED ilRest

\* ilinker->build()
IlBuild ==
    /\ ~ilBuilt
    /\ LET b == ILbuild(sections)
       IN /\ sections' = b.sections
          /\ output' = b.output
    /\ ilBuilt' = TRUE
    /\ UNCHANGED <<thunk_size, symbols, relocations, ilOrder>>
    /\ UNCHANGED ilRest

IlNext == IlAdd \/ IlBuild

SpecImportLinker == IlInit /\ [][IlNext]_vars

\* ------------------------------------------------------------------
\* reading a relocation stream, and building it again

\* a block as bytes: the header's virtual_address and size_of_block, then the entries
RrBlockWords(va, sob, ents) ==
    <<va % 65536, va \div 65536, sob % 65536, sob \div 65536>> \o ents

\* the entry of the given type at the given offset into the page
RrEntry(type, off) == type * 4096 + off

\* the entry lists the blocks of the checked streams carry: empty, a padded
\* one, two descending ones and two types at one position.  Every word stays
\* below 2^15, so that any two of them read as a 32-bit value stay below 2^31.
RrEntLists ==
    {<<>>, <<RrEntry(3, 4)>>, <<RrEntry(3, 4), 0>>, <<RrEntry(3, 8), RrEntry(3, 4)>>,
     <<RrEntry(3, 4), RrEntry(1, 4)>>}

\* the sizes a block of n entries declares: the right one, 0, 7, an odd one
\* and one that is four bytes too large
RrSobs(n) == {8 + 2 * n, 0, 7, 9 + 2 * n, 12 + 2 * n}

\* the streams checked: up to two blocks
RrStreams ==
    LET blocks == UNION {{RrBlockWords(va, sob, l) : sob \in RrSobs(Len(l))} :
                            va \in {4096, 8192}, l \in RrEntLists}
    IN {[words |-> w, size |-> 2 * Len(w)] :
            w \in {<<>>} \cup blocks \cup {a \o b : a \in blocks, b \in blocks}}

RrInit ==
    /\ MoreIdle
    /\ IvIdle
    /\ IlIdle
    /\ RlIdle
    /\ TlsIdle
    /\ RsIdle
    /\ opt \in {PeDefaultOpt, [PeDefaultOpt EXCEPT !.force = TRUE]}
    /\ opt0 = opt
    /\ fi = NoFile
    /\ fiOrigin = "none"
    /\ fiSource = NoFile
    /\ fo = NoFile
    /\ peLast = PeNoOp
    /\ nfiles = 0
    /\ \E s \in RrStreams :
          rr = [src |-> s, step |-> "new", err |-> "none", pairs |-> <<>>,
                built |-> [err |-> "none", words |-> <<>>, size |-> 0],
                reread |-> [err |-> "none", pairs |-> <<>>]]

\* Reloc rel(ptr, bytes) and then while (rel.next(pos, type)) ...
RrRead ==
    /\ rr.step = "new"
    /\ rr' = [rr EXCEPT !.step = "read",
                        !.err = Reloc_reader(rr.src, opt.force).err,
                        !.pairs = Reloc_reader(rr.src, opt.force).pairs]
    /\ UNCHANGED <<moreVars, ivVars, ilVars, peVars, rl, tls, rs>>

\* the outcome of a builder given the pairs: its error, or the bytes handed over
RrBuild(pairs, force) ==
    IF RlAddAll(Reloc_builder(Len(pairs)), pairs).err # "none"
    THEN [err |-> RlAddAll(Reloc_builder(Len(pairs)), pairs).err, words |-> <<>>, size |-> 0]
    ELSE IF Reloc_finish(RlAddAll(Reloc_builder(Len(pairs)), pairs), force).err # "none"
    THEN [err |-> Reloc_finish(RlAddAll(Reloc_builder(Len(pairs)), pairs), force).err,
          words |-> <<>>, size |-> 0]
    ELSE [err |-> "none",
          words |-> RlResult(Reloc_finish(RlAddAll(Reloc_builder(Len(pairs)), pairs), force)).words,
          size |-> RlResult(Reloc_finish(RlAddAll(Reloc_builder(Len(pairs)), pairs), force)).size]

\* Reloc rel(relocnum); rel.add(pos, type) for every pair read; rel.finish(...);
\* and the bytes built are read again
RrRebuild ==
    /\ rr.step = "read"
    /\ rr.err = "none"
    /\ rr' = [rr EXCEPT !.step = "rebuilt",
                        !.built = RrBuild(rr.pairs, opt.force),
                        !.reread = IF RrBuild(rr.pairs, opt.force).err = "none"
                                   THEN Reloc_reader([words |-> RrBuild(rr.pairs, opt.force).words,
                                                      size |-> RrBuild(rr.pairs, opt.force).size],
                                                     opt.force)
                                   ELSE [err |-> "none", pairs |-> <<>>]]
    /\ UNCHANGED <<moreVars, ivVars, ilVars, peVars, rl, tls, rs>>

RrNext == RrRead \/ RrRebuild

SpecRelocReader == RrInit /\ [][RrNext]_vars
\* ------------------------------------------------------------------
\* a Reloc builder from construction to the release of its buffer

\* the (pos, type) pairs handed to add(): two positions on one page, a second
\* type at one of them, two more pages, a position of 29 bits, a type of 5 bits
RlPairs ==
    {[pos |-> 4100, type |-> 3], [pos |-> 4104, type |-> 3], [pos |-> 4100, type |-> 1],
     [pos |-> 8196, type |-> 3], [pos |-> 12292, type |-> 3],
     [pos |-> 2^28, type |-> 3], [pos |-> 4100, type |-> 16]}

RlInit ==
    /\ MoreIdle
    /\ IvIdle
    /\ IlIdle
    /\ RrIdle
    /\ RlIdle
    /\ TlsIdle
    /\ RsIdle
    /\ opt \in {PeDefaultOpt, [PeDefaultOpt EXCEPT !.force = TRUE]}
    /\ opt0 = opt
    /\ fi = NoFile
    /\ fiOrigin = "none"
    /\ fiSource = NoFile
    /\ fo = NoFile
    /\ peLast = PeNoOp
    /\ nfiles = 0

\* Reloc rel(relocnum)
RlNew ==
    /\ rl.constructed = 0
    /\ rl' = [rl EXCEPT !.alive = TRUE, !.b = Reloc_builder(MaxRlAdds), !.constructed = 1]
    /\ UNCHANGED <<moreVars, ivVars, ilVars, peVars, rr, tls, rs>>

\* the builder state after rel.add(pos, type) on rl
RlAdded(r, nb, p) ==
    [r EXCEPT !.b = nb,
              !.added = IF nb.err = "none" THEN Append(@, p) ELSE @,
              !.thrown = IF nb.err \in {"none", "assert"} THEN "none" ELSE nb.err,
              !.aborted = nb.err = "assert",
              !.late = IF nb.err = "assert" THEN "add" ELSE @]

\* rel.add(pos, type); after finish() the call fails its assertion
RlAdd ==
    /\ rl.alive
    /\ rl.thrown = "none"
    /\ ~rl.aborted
    /\ rl.b.start_did_alloc => Len(rl.added) < MaxRlAdds
    /\ \E p \in RlPairs : rl' = RlAdded(rl, Reloc_add(rl.b, p.pos, p.type), p)
    /\ UNCHANGED <<moreVars, ivVars, ilVars, peVars, rr, tls, rs>>

\* the state after rel.finish(oxrelocs, soxrelocs) went as fin says
RlFinished(r, fin) ==
    IF fin.err = "assert"
    THEN [r EXCEPT !.aborted = TRUE, !.late = "finish"]
    ELSE IF fin.err # "none"
    THEN [r EXCEPT !.thrown = fin.err,
                   !.fin = [called |-> TRUE, err |-> fin.err, clobbered |-> fin.clobbered,
                            overran |-> fin.overran]]
    ELSE [r EXCEPT !.b.start_did_alloc = FALSE,
                   !.oxrelocs = [owned |-> TRUE, words |-> RlResult(fin).words,
                                 size |-> RlResult(fin).size],
                   !.fin = [called |-> TRUE, err |-> "none", clobbered |-> fin.clobbered,
                            overran |-> fin.overran]]

\* rel.finish(oxrelocs, soxrelocs)
RlFinish ==
    /\ rl.alive
    /\ rl.thrown = "none"
    /\ ~rl.aborted
    /\ rl' = RlFinished(rl, Reloc_finish(rl.b, opt.force))
    /\ UNCHANGED <<moreVars, ivVars, ilVars, peVars, rr, tls, rs>>

\* ~Reloc(), at the end of the scope or while an exception unwinds it
RlDestroy ==
    /\ rl.alive
    /\ ~rl.aborted
    /\ rl' = [rl EXCEPT !.alive = FALSE,
                        !.frees = IF Reloc_dtor(rl.b) THEN @ + 1 ELSE @,
                        !.freedBy = IF Reloc_dtor(rl.b) THEN "destructor" ELSE @]
    /\ UNCHANGED <<moreVars, ivVars, ilVars, peVars, rr, tls, rs>>

\* delete[] oxrelocs; oxrelocs = nullptr, in rebuildRelocs or in ~PeFile
RlCallerFree ==
    /\ rl.oxrelocs.owned
    /\ ~rl.aborted
    /\ rl' = [rl EXCEPT !.oxrelocs.owned = FALSE, !.frees = @ + 1, !.freedBy = "caller"]
    /\ UNCHANGED <<moreVars, ivVars, ilVars, peVars, rr, tls, rs>>

RlNext == RlNew \/ RlAdd \/ RlFinish \/ RlDestroy \/ RlCallerFree

SpecReloc == RlInit /\ [][RlNext]_vars
\* ------------------------------------------------------------------
\* the two TLS passes of pack0 on one image

TlsInit ==
    /\ MoreIdle
    /\ ivarr = <<>>
    /\ ivAdded = <<>>
    /\ ivFlat = 0
    /\ IlIdle
    /\ PeIdle
    /\ RrIdle
    /\ RlIdle
    /\ RsIdle
    /\ \E idx \in SUBSET (1..Len(TlsRelocs)), cb \in BOOLEAN, has \in BOOLEAN,
          m \in [{8192, 8196, 8200, 8204, 8208} -> TlsPointers] :
          /\ has \/ (idx = {} /\ ~cb /\ m = [p \in {8192, 8196, 8200, 8204, 8208} |-> 4194304 + 4096])
          /\ tls = [TlsNone EXCEPT !.step = "new", !.hastls = has,
                                   !.relocs = TlsSelect(TlsRelocs, idx), !.mem = m, !.cb = cb]

\* processTls(&tlsiv), pass 1: tlsiv is the Interval of ivarr
TlsPass1 ==
    /\ tls.step = "new"
    /\ tls' = processTls1(tls)
    /\ ivarr' = IF tls.hastls
                THEN TlsRecorded(tls.relocs, TlsImage.datastart - TlsImage.imagebase,
                                 TlsImage.dataend - TlsImage.imagebase)
                ELSE ivarr
    /\ ivAdded' = ivarr'
    /\ ivFlat' = 0
    /\ UNCHANGED <<moreVars, ilVars, peVars, rr, rl, rs>>

\* tls_handler_offset = ... (line 2484) and processTls(&rel, &tlsiv, ic), pass 2
TlsPass2 ==
    /\ tls.step = "pass1"
    /\ tls' = processTls2([tls EXCEPT !.tls_handler_offset =
                                IF tls.use_tls_callbacks THEN TlsImage.handler ELSE 0],
                          ivarr)
    /\ UNCHANGED <<moreVars, ivVars, ilVars, peVars, rr, rl, rs>>

TlsNext == TlsPass1 \/ TlsPass2

SpecTls == TlsInit /\ [][TlsNext]_vars

\* ---- the file operations.  The driver opens a file and either packs it or
\* asks canUnpack0 and, on true, unpacks it; opt lives on between files.

PeInit ==
    /\ MoreIdle
    /\ IvIdle
    /\ IlIdle
    /\ RrIdle
    /\ RlIdle
    /\ TlsIdle
    /\ RsIdle
    /\ opt \in PeOptions
    /\ opt0 = opt
    /\ fi = NoFile
    /\ fiOrigin = "none"
    /\ fiSource = NoFile
    /\ fo = NoFile
    /\ peLast = PeNoOp
    /\ nfiles = 0

\* the next input file named on the command line
PeOpen ==
    /\ nfiles < MaxFiles
    /\ fi = NoFile
    /\ \E f \in PeFiles : fi' = f
    /\ fiOrigin' = "input"
    /\ fiSource' = NoFile
    /\ fo' = NoFile
    /\ peLast' = PeNoOp
    /\ nfiles' = nfiles + 1
    /\ UNCHANGED <<opt, opt0>>
    /\ UNCHANGED peRest

\* the file pack0 has just written is the next input file; how well it
\* compresses is the codec's answer
PeOpenPacked ==
    /\ nfiles < MaxFiles
    /\ fo # NoFile
    /\ \E c \in BOOLEAN : fi' = [fo EXCEPT !.compressible = c]
    /\ fiOrigin' = "pack0"
    /\ fiSource' = fi
    /\ fo' = NoFile
    /\ peLast' = PeNoOp
    /\ nfiles' = nfiles + 1
    /\ UNCHANGED <<opt, opt0>>
    /\ UNCHANGED peRest

\* the same packed image under the section names of a released packer
\* ("UPX0", "UPX1") is the next input file
PeOpenReleased ==
    /\ nfiles < MaxFiles
    /\ fo # NoFile
    /\ fi' = [fo EXCEPT !.isection[1].name = <<"U", "P", "X", "0">>,
                        !.isection[2].name = <<"U", "P", "X", "1">>]
    /\ fiOrigin' = "released"
    /\ fiSource' = fi
    /\ fo' = NoFile
    /\ peLast' = PeNoOp
    /\ nfiles' = nfiles + 1
    /\ UNCHANGED <<opt, opt0>>
    /\ UNCHANGED peRest

\* PeFile32::pack0
PePack0 ==
    /\ fi # NoFile
    /\ peLast.op = "none"
    /\ LET r == pack0(fi, opt)
       IN /\ opt' = r.opt
          /\ fo' = r.fo
          /\ peLast' = [PeNoOp EXCEPT !.op = "pack0", !.err = r.err]
    /\ UNCHANGED <<opt0, fi, fiOrigin, fiSource, nfiles>>
    /\ UNCHANGED peRest

\* PeFile32::canUnpack
PeCanUnpack0 ==
    /\ fi # NoFile
    /\ peLast.op = "none"
    /\ \E ret \in canUnpack0(fi) :
          peLast' = [PeNoOp EXCEPT !.op = "canUnpack0", !.ret = ret,
                                   !.err = IF ret \in {"CantUnpack", "InternalError"}
                                           THEN ret ELSE "none"]
    /\ UNCHANGED <<opt, opt0, fi, fiOrigin, fiSource, fo, nfiles>>
    /\ UNCHANGED peRest

\* PeFile32::unpack, called when canUnpack answered true
PeUnpack0 ==
    /\ peLast.op = "canUnpack0"
    /\ peLast.ret = "true"
    /\ LET r == unpack0(fi, opt)
       IN /\ opt' = r.opt
          /\ peLast' = [op |-> "unpack0", err |-> r.err, ret |-> "none",
                        reads |-> r.reads, oh |-> r.oh, osection |-> r.osection]
    /\ UNCHANGED <<opt0, fi, fiOrigin, fiSource, fo, nfiles>>
    /\ UNCHANGED peRest

\* the driver is done with the file; only the options stay
PeClose ==
    /\ fi # NoFile
    /\ peLast.op # "none"
    /\ fi' = NoFile
    /\ fiOrigin' = "none"
    /\ fiSource' = NoFile
    /\ fo' = NoFile
    /\ peLast' = PeNoOp
    /\ UNCHANGED <<opt, opt0, nfiles>>
    /\ UNCHANGED peRest

PeNext ==
    \/ PeOpen
    \/ PeClose
    \/ PeOpenPacked
    \/ PeOpenReleased
    \/ PePack0
    \/ PeCanUnpack0
    \/ PeUnpack0

SpecPe == PeInit /\ [][PeNext]_vars
\* ------------------------------------------------------------------
\* a resource tree through processResources (pack) and rebuildResources
\* (unpack), and match() asked about a type and name

\* an RT_ICON leaf with the numbered name id
RsIcon(id) == [type |-> ResNum(3), name |-> ResNum(id), count |-> 0, ids |-> <<>>]

\* an RT_GROUP_ICON leaf: its icon directory lists the icons ids
RsGroup(name, ids) == [type |-> ResNum(14), name |-> name, count |-> Len(ids), ids |-> ids]

\* the trees checked, in traversal order (named types first, then 3, then 14):
\* a leaf of the named type "A", some icons, some icon groups
RsTrees ==
    {<<[type |-> ResStr(<<65>>), name |-> ResNum(1), count |-> 0, ids |-> <<>>]>> \o i \o g :
        i \in {<<RsIcon(1), RsIcon(2), RsIcon(3)>>, <<RsIcon(1), RsIcon(1), RsIcon(2)>>,
               <<RsIcon(2)>>},
        g \in {<<>>,
               <<RsGroup(ResNum(1), <<1, 2>>)>>,
               <<RsGroup(ResNum(1), <<2, 1>>), RsGroup(ResNum(2), <<3, 1, 2>>)>>,
               <<RsGroup(ResNum(1), <<2>>), RsGroup(ResStr(<<66>>), <<1, 3, 2>>)>>}}

\* opt->win32_pe.keep_resource: "", "14", "3/2", "14/2,A", "A/B", "16", "16A",
\* "A", "3,14/B", "0"
RsKeeps ==
    {<<>>, <<49, 52>>, <<51, 47, 50>>, <<49, 52, 47, 50, 44, 65>>, <<65, 47, 66>>, <<49, 54>>,
     <<49, 54, 65>>, <<65>>, <<51, 44, 49, 52, 47, 66>>, <<48>>}

\* the types and names match() is asked about: numbers, "A", "B", "16" and
\* the one-letter name U+0141
RsProbeTypes ==
    {ResNum(0), ResNum(3), ResNum(14), ResNum(16), ResStr(<<65>>), ResStr(<<321>>),
     ResStr(<<49, 54>>)}

RsProbeNames == {ResNum(0), ResNum(1), ResNum(2), ResStr(<<66>>), ResStr(<<65>>)}

RsInit ==
    /\ MoreIdle
    /\ IvIdle
    /\ IlIdle
    /\ RrIdle
    /\ RlIdle
    /\ TlsIdle
    /\ opt \in {[PeDefaultOpt EXCEPT !.compress_resources = r, !.compress_icons = i] :
                    r \in {-1, 0, 1}, i \in {0, 1, 2, 3}}
    /\ opt0 = opt
    /\ fi = NoFile
    /\ fiOrigin = "none"
    /\ fiSource = NoFile
    /\ fo = NoFile
    /\ peLast = PeNoOp
    /\ nfiles = 0
    /\ \E t \in RsTrees, k \in RsKeeps :
          rs = [RsNone EXCEPT !.step = "new", !.leaves = t, !.keep = k]

\* match(itype, ntype, iname, nname, opt->win32_pe.keep_resource)
RsMatch ==
    /\ rs.step = "new"
    /\ ~rs.probe.asked
    /\ \E t \in RsProbeTypes, n \in RsProbeNames :
          rs' = [rs EXCEPT !.probe = [asked |-> TRUE, type |-> t, name |-> n,
                                      result |-> match(t, n, rs.keep)]]
    /\ UNCHANGED <<moreVars, ivVars, ilVars, peVars, rr, rl, tls>>

\* processResources(&res) of pack0 on an image that is not EFI
RsPack ==
    /\ rs.step = "new"
    /\ opt' = ResOptDefaults(opt, FALSE)
    /\ rs' = [rs EXCEPT !.step = "packed",
                        !.stored = ResProcess(rs.leaves, opt', rs.keep).out,
                        !.icondir_count = ResProcess(rs.leaves, opt', rs.keep).icondir_count]
    /\ UNCHANGED <<moreVars, ivVars, ilVars, rr, rl, tls>>
    /\ UNCHANGED <<opt0, fi, fiOrigin, fiSource, fo, peLast, nfiles>>

\* rebuildResources(extra_info, lastvaddr) of unpack0: icondir_count is the
\* 16-bit value pack0 stored (line 2375)
RsUnpack ==
    /\ rs.step = "packed"
    /\ rs' = [rs EXCEPT !.step = "unpacked",
                        !.counts = ResRebuild(rs.stored, rs.leaves, 1, rs.icondir_count % 65536)]
    /\ UNCHANGED <<moreVars, ivVars, ilVars, peVars, rr, rl, tls>>

RsNext == RsMatch \/ RsPack \/ RsUnpack

SpecRes == RsInit /\ [][RsNext]_vars
\* ------------------------------------------------------------------
\* readFileHeader on a file, pass by pass

\* the MZ headers tried: new-format ones with nexepos 0, 10, 64, 128 and one
\* that wraps pe_offset, old-format ones with and without pages
FhHeaders ==
    {[kind |-> "MZ", relocoffs |-> 64, p512 |-> 0, m512 |-> 0, nexepos |-> n] :
        n \in {0, 10, 64, 128, UINT_MOD - 64}}
    \cup {[kind |-> "MZ", relocoffs |-> 28, p512 |-> 1, m512 |-> 7, nexepos |-> n] : n \in {0, 10}}
    \cup {[kind |-> "MZ", relocoffs |-> 28, p512 |-> 0, m512 |-> 7, nexepos |-> 64]}
    \cup {[FhOther EXCEPT !.kind = "PE"], FhOther}

FhFiles == [hdr : [{0, 64, 128} -> FhHeaders], size : {100 + 28, 192, 1024}]

FhInit ==
    /\ IvIdle
    /\ IlIdle
    /\ PeIdle
    /\ RrIdle
    /\ RlIdle
    /\ TlsIdle
    /\ RsIdle
    /\ RcIdle
    /\ ImpIdle
    /\ PrIdle
    /\ IvBaseIdle
    /\ \E file \in FhFiles : fh = FhStart(file)

\* the body of the loop while ic < 20
FhHop ==
    /\ fh.pc = "loop"
    /\ fh.ic < FhMaxHops
    /\ fh' = readFileHeaderHop(fh)
    /\ UNCHANGED fhRest

\* if (ic == 20) return 0
FhGiveUp ==
    /\ fh.pc = "loop"
    /\ fh.ic = FhMaxHops
    /\ fh' = FhDone(fh, "0", "none")
    /\ UNCHANGED fhRest

FhNext == FhHop \/ FhGiveUp

SpecFileHeader == FhInit /\ [][FhNext]_vars

\* the loop runs on until the function returns or throws
SpecFileHeaderFair == SpecFileHeader /\ WF_vars(FhNext)
\* ------------------------------------------------------------------
\* a resource directory through processResources and rebuildResources

RcDir(nn, ni) ==
    <<RcCell("hdr", 0, 0), RcCell("hdr", 0, 0), RcCell("hdr", 0, 0), RcCell("cnt", nn, ni)>>

RcEnt(named, tnl, isdir, off) == <<RcCell("tnl", named, tnl), RcCell("child", isdir, off)>>

RcData(rva, size) ==
    <<RcCell("doff", 0, rva), RcCell("dsz", 0, size), RcCell("dpad", 0, 0), RcCell("dpad", 0, 0)>>

RcStr(c) == <<RcCell("str", 1, c)>>

RcBlob(tag, n) == [i \in 1..n |-> RcCell("blob", tag, i)]

RcText(n) == [i \in 1..n |-> RcCell("text", 0, i)]

\* the image: RcVaddr cells of another section, the resource section, and the
\* cells behind it
RcImage(cells) == RcText(RcVaddr) \o cells \o RcText(12)

\* one leaf, every table right behind its parent, the data behind the entry
RcLayoutPlain(t, n) ==
    RcImage(RcDir(0, 1) \o RcEnt(0, t, 1, 6) \o RcDir(0, 1) \o RcEnt(0, n, 1, 12)
            \o RcDir(0, 1) \o RcEnt(0, 9, 0, 18) \o RcData(RcVaddr + 22, 2) \o RcBlob(1, 2))

\* a named resource, its string right behind the data entry
RcLayoutNameBehind(t, c) ==
    RcImage(RcDir(0, 1) \o RcEnt(0, t, 1, 6) \o RcDir(1, 0) \o RcEnt(1, 22, 1, 12)
            \o RcDir(0, 1) \o RcEnt(0, 9, 0, 18) \o RcData(RcVaddr + 23, 2) \o RcStr(c)
            \o RcBlob(1, 2))

\* a named resource, its string between the tables and the data entry
RcLayoutNameBetween(t, c) ==
    RcImage(RcDir(0, 1) \o RcEnt(0, t, 1, 6) \o RcDir(1, 0) \o RcEnt(1, 18, 1, 12)
            \o RcDir(0, 1) \o RcEnt(0, 9, 0, 19) \o RcStr(c) \o RcData(RcVaddr + 23, 2)
            \o RcBlob(1, 2))

\* a named resource, its string behind the data
RcLayoutNameLast(t, c) ==
    RcImage(RcDir(0, 1) \o RcEnt(0, t, 1, 6) \o RcDir(1, 0) \o RcEnt(1, 24, 1, 12)
            \o RcDir(0, 1) \o RcEnt(0, 9, 0, 18) \o RcData(RcVaddr + 22, 2) \o RcBlob(1, 2)
            \o RcStr(c))

\* two types, the tables level by level as the resource compiler lays them out
RcLayoutLevels(t1, t2) ==
    RcImage(RcDir(0, 2) \o RcEnt(0, t1, 1, 8) \o RcEnt(0, t2, 1, 14)
            \o RcDir(0, 1) \o RcEnt(0, 1, 1, 20) \o RcDir(0, 1) \o RcEnt(0, 1, 1, 26)
            \o RcDir(0, 1) \o RcEnt(0, 9, 0, 32) \o RcDir(0, 1) \o RcEnt(0, 9, 0, 36)
            \o RcData(RcVaddr + 40, 1) \o RcData(RcVaddr + 41, 2)
            \o RcBlob(1, 1) \o RcBlob(2, 2))

\* a cell of something else between two tables
RcLayoutGap(t, n) ==
    RcImage(RcDir(0, 1) \o RcEnt(0, t, 1, 6) \o RcDir(0, 1) \o RcEnt(0, n, 1, 13)
            \o RcText(1) \o RcDir(0, 1) \o RcEnt(0, 9, 0, 19) \o RcData(RcVaddr + 23, 1)
            \o RcBlob(1, 1))

\* two named types sharing one string
RcLayoutSharedName(c, n) ==
    RcImage(RcDir(2, 0) \o RcEnt(1, 40, 1, 8) \o RcEnt(1, 40, 1, 14)
            \o RcDir(0, 1) \o RcEnt(0, n, 1, 20) \o RcDir(0, 1) \o RcEnt(0, n, 1, 26)
            \o RcDir(0, 1) \o RcEnt(0, 9, 0, 32) \o RcDir(0, 1) \o RcEnt(0, 9, 0, 36)
            \o RcData(RcVaddr + 41, 1) \o RcData(RcVaddr + 42, 1)
            \o RcStr(c) \o RcBlob(1, 1) \o RcBlob(2, 1))

RcTypes == {3, 14}
RcNames == {1, 2}
RcChars == {65, 66}

RcImages ==
    {RcLayoutPlain(t, n) : t \in RcTypes, n \in RcNames}
    \cup {RcLayoutNameBehind(t, c) : t \in RcTypes, c \in RcChars}
    \cup {RcLayoutNameBetween(t, c) : t \in RcTypes, c \in RcChars}
    \cup {RcLayoutNameLast(t, c) : t \in RcTypes, c \in RcChars}
    \cup {RcLayoutLevels(3, t2) : t2 \in {10, 14}}
    \cup {RcLayoutGap(t, n) : t \in RcTypes, n \in RcNames}
    \cup {RcLayoutSharedName(c, n) : c \in RcChars, n \in RcNames}

RcLeafOffsets(image) == {RcLeaves(RcTree(image))[i].offset : i \in 1..Len(RcLeaves(RcTree(image)))}

RcInit ==
    /\ IvIdle
    /\ IlIdle
    /\ PeIdle
    /\ RrIdle
    /\ RlIdle
    /\ TlsIdle
    /\ RsIdle
    /\ FhIdle
    /\ ImpIdle
    /\ PrIdle
    /\ IvBaseIdle
    /\ \E image \in RcImages : \E keep \in SUBSET RcLeafOffsets(image) :
           rc = [RcNone EXCEPT !.step = "loaded", !.orig = image, !.keep = keep, !.ibuf = image]

\* processResources(res) and processResources(res, newaddr)
RcPack ==
    /\ rc.step = "loaded"
    /\ rc' = [rc EXCEPT !.step = "packed",
                        !.ibuf = RcClear(RcPass1(rc.orig, rc.keep).ibuf).mem,
                        !.zeroed = RcClear(RcPass1(rc.orig, rc.keep).ibuf).ret,
                        !.ores = RcPass2(RcTree(rc.orig), RcPass1(rc.orig, rc.keep))]
    /\ UNCHANGED rcRest

\* decompression gives the image back as pass 1 left it; rebuildResources
RcUnpack ==
    /\ rc.step = "packed"
    /\ rc' = [rc EXCEPT !.step = "unpacked",
                        !.obuf = rebuildResourcesDir(rc.ibuf, rc.ores).obuf,
                        !.wrote = rebuildResourcesDir(rc.ibuf, rc.ores).wrote]
    /\ UNCHANGED rcRest

RcNext == RcPack \/ RcUnpack

SpecResDir == RcInit /\ [][RcNext]_vars
\* ------------------------------------------------------------------
\* processImports0 on an import table

\* the descriptors tried: kernel32.dll in two spellings and another dll, with
\* lookup tables of up to two entries by ordinal 0, 1, 0xffff or by name; one or
\* two descriptors, a single one also in a DLL

ImpNames == {kernelDll, <<75>> \o Tail(kernelDll), <<98>>}

ImpEntries ==
    {[byname |-> FALSE, ord |-> n, name |-> <<>>] : n \in {0, 1, 65535}}
    \cup {[byname |-> TRUE, ord |-> 0, name |-> <<112>>]}

ImpTables == UNION {[1..n -> ImpEntries] : n \in 0..2}

ImpDescs == [name : ImpNames, entries : ImpTables]

ImpInit ==
    /\ IvIdle
    /\ IlIdle
    /\ PeIdle
    /\ RrIdle
    /\ RlIdle
    /\ TlsIdle
    /\ RsIdle
    /\ FhIdle
    /\ RcIdle
    /\ PrIdle
    /\ IvBaseIdle
    /\ \E descs \in UNION {[1..n -> ImpDescs] : n \in 1..2} :
       \E dll \in (IF Len(descs) = 1 THEN BOOLEAN ELSE {FALSE}) :
          imp = [ImpNone EXCEPT !.step = "read", !.descs = descs, !.isdll = dll]

\* the descriptors collected and sorted, the linker filled and built
\* (lines 1006-1073)
ImpLink ==
    /\ imp.step = "read"
    /\ LET idlls == ImpSort([ic \in 1..Len(imp.descs) |-> ImpUDll(imp.descs, ic)])
           st == ImpAddLoop([il |-> addStubImports(IlNew, 4, imp.isdll),
                             kernel32ordinal |-> FALSE], 4, idlls)
       IN imp' = [imp EXCEPT !.step = "linked", !.idlls = idlls,
                             !.added = [i \in 1..Len(st.il.sections) |-> st.il.sections[i].name],
                             !.secs = ILbuild(st.il.sections).sections,
                             !.kernel32ordinal = st.kernel32ordinal]
    /\ UNCHANGED impRest

\* the preprocessed import stream (lines 1078-1115)
ImpEmit ==
    /\ imp.step = "linked"
    /\ LET st == ImpEmitLoop([secs |-> imp.secs, kernel32ordinal |-> imp.kernel32ordinal,
                              out |-> <<>>, asked |-> <<>>, err |-> "none"], imp.idlls)
       IN imp' = [imp EXCEPT !.step = "emitted", !.out = st.out, !.asked = st.asked,
                             !.err = st.err]
    /\ UNCHANGED impRest

ImpNext == ImpLink \/ ImpEmit

SpecImports == ImpInit /\ [][ImpNext]_vars
\* ------------------------------------------------------------------
\* the relocations of an image through processRelocs and rebuildRelocs

\* the records tried: type 1 and type 2 at rvamin, above it and outside the
\* image, one of type 3
PrRecords ==
    {[pos |-> p, type |-> t] : p \in {PrRvamin, PrRvamin + 4, 8 * 1024, PrImagesize},
                               t \in {1, 2}}
    \cup {[pos |-> PrRvamin + 8, type |-> 3]}

RECURSIVE PrSeq(_)
\* a set of records as the stream delivers them, highest position first
PrSeq(s) ==
    IF s = {} THEN <<>>
    ELSE LET r == CHOOSE x \in s : \A y \in s :
                      y.pos < x.pos \/ (y.pos = x.pos /\ y.type <= x.type)
         IN <<r>> \o PrSeq(s \ {r})

PrInit ==
    /\ IvIdle
    /\ IlIdle
    /\ PeIdle
    /\ RrIdle
    /\ RlIdle
    /\ TlsIdle
    /\ RsIdle
    /\ FhIdle
    /\ RcIdle
    /\ ImpIdle
    /\ IvBaseIdle
    /\ \E s \in SUBSET PrRecords : \E twice \in BOOLEAN : \E strip \in BOOLEAN :
          /\ strip => ~twice
          /\ pr = [PrNone EXCEPT !.step = "read", !.strip = strip,
                                 !.records = IF twice THEN PrSeq(s) \o PrSeq(s) ELSE PrSeq(s)]

\* processRelocs(), pass 1
PrPack ==
    /\ pr.step = "read"
    /\ pr' = [pr EXCEPT !.step = "packed", !.orelocs = processRelocs32(pr.records, pr.strip)]
    /\ UNCHANGED prRest

\* rebuildRelocs on the unpacked image; nothing to do without a relocation
\* directory
PrUnpack ==
    /\ pr.step = "packed"
    /\ pr' = [pr EXCEPT !.step = "unpacked",
                        !.adds = IF pr.strip \/ pr.records = <<>> THEN <<>>
                                 ELSE rebuildRelocs32(pr.orelocs)]
    /\ UNCHANGED prRest

PrNext == PrPack \/ PrUnpack

SpecRelocs32 == PrInit /\ [][PrNext]_vars
IlPerms(order) ==
    {[i \in 1..Len(order) |-> order[q[i]]] :
        q \in {f \in [1..Len(order) -> 1..Len(order)] :
                  \A i, j \in 1..Len(order) : f[i] = f[j] => i = j}}

IlDistinct(order) == \A i, j \in 1..Len(order) : order[i] = order[j] => i = j

IlLower(dll) == [i \in 1..Len(dll) |-> tolower(dll[i])]

\* the pair added first for the dll that p belongs to
IlFirstOf(order, p) ==
    order[CHOOSE i \in 1..Len(order) :
              /\ IlLower(order[i].dll) = IlLower(p.dll)
              /\ \A j \in 1..(i - 1) : IlLower(order[j].dll) # IlLower(p.dll)]

IlSameFirsts(o1, o2) ==
    \A i \in 1..Len(o1) : IlFirstOf(o1, o1[i]) = IlFirstOf(o2, o1[i])

IlThunksOf(dll) ==
    LET pre == name_for_dll(dll, thunk_id)
    IN {i \in 1..Len(sections) :
           /\ Len(sections[i].name) >= Len(pre)
           /\ SubSeq(sections[i].name, 1, Len(pre)) = pre
           /\ \/ Len(sections[i].name) = Len(pre)
              \/ sections[i].name[Len(pre) + 1]
                    \in {thunk_separator_first, thunk_separator, thunk_separator_last}}

\* the name add() gives the thunk of the pair added first for a dll
IlFirstThunk(p) ==
    IF p.proc = <<>> /\ p.ordinal = 0 THEN name_for_dll(p.dll, thunk_id)
    ELSE name_for_proc(p.dll, IF p.proc = <<>> THEN OrdString(p.ordinal) ELSE p.proc,
                       thunk_id, thunk_separator_first)

\* the thunks of the dll of the pair p are one run of the section order, from
\* the thunk added first for it to its zero sentinel
IlOneRun(p) ==
    LET t == IlThunksOf(p.dll)
        lo == CHOOSE i \in t : \A j \in t : i <= j
        hi == CHOOSE i \in t : \A j \in t : j <= i
    IN /\ t # {}
       /\ t = lo..hi
       /\ sections[lo].name = IlFirstThunk(IlFirstOf(ilOrder, p))
       /\ sections[hi].name = name_for_proc(p.dll, StrX, thunk_id, thunk_separator_last)

\* "Dzero" comes after every dll descriptor
IlDzeroLast ==
    \A i, j \in 1..Len(sections) :
        (sections[i].name[1] = descriptor_id /\ sections[j].name = StrDzero) => i <= j

\* C24: after build() the thunks of each dll form one contiguous run that starts
\* with the thunk added first for the dll and ends with the dll's zero sentinel,
\* no thunk of another dll inside it, and "Dzero" follows every dll descriptor
ThunkRunsContiguous ==
    ilBuilt => (IlDzeroLast /\ \A k \in 1..Len(ilOrder) : IlOneRun(ilOrder[k]))

\* built: the dlls "a" and "ab", two thunks for "a"
ThunkRunsContiguousWitness ==
    /\ ilBuilt
    /\ \E k \in 1..Len(ilOrder) : ilOrder[k].dll = <<97, 98>>
    /\ Cardinality(IlThunksOf(<<97>>)) = 3
    /\ Cardinality(IlThunksOf(<<97, 98>>)) = 2

\* the same when an empty import, add(dll, 0), is only ever the first add of
\* its dll
ThunkRunsContiguousEmptyFirst ==
    (ilBuilt /\ \A k \in 1..Len(ilOrder) :
                    (ilOrder[k].proc = <<>> /\ ilOrder[k].ordinal = 0)
                        => IlFirstOf(ilOrder, ilOrder[k]) = ilOrder[k])
        => (IlDzeroLast /\ \A k \in 1..Len(ilOrder) : IlOneRun(ilOrder[k]))

\* the step is an add() of a pair that was added before
IlReAdd ==
    /\ Len(ilOrder') = Len(ilOrder) + 1
    /\ \E i \in 1..Len(ilOrder) : ilOrder[i] = ilOrder'[Len(ilOrder')]

\* C27: add() of a (dll, proc or ordinal) pair that was already added creates no
\* section, symbol or relocation, whichever place the pair had among the adds
\* of its dll, the first included.
AddIdempotent ==
    [][IlReAdd => (sections' = sections /\ symbols' = symbols /\ relocations' = relocations)]_vars

\* the same for a pair that was not the first add of its dll, and for the empty
\* import
AddIdempotentNotFirst ==
    [][(/\ IlReAdd
        /\ LET p == ilOrder'[Len(ilOrder')]
           IN \/ IlFirstOf(ilOrder, p) # p
              \/ (p.proc = <<>> /\ p.ordinal = 0))
       => (sections' = sections /\ symbols' = symbols /\ relocations' = relocations)]_vars

\* ------------------------------------------------------------------
\* properties of the orchestrator

HasUPXPrefix(name) ==
    Len(name) >= 3 /\ name[1] = "U" /\ name[2] = "P" /\ name[3] = "X"

\* the input of the file operation in progress was written by pack0 of this
\* program
FromPack0 == fiOrigin = "pack0"

\* the extra_info of the input was written by pack0, under whichever names
EiFromPack0 == fiOrigin \in {"pack0", "released"}

Unpacked == peLast.op = "unpack0" /\ peLast.err = "none"

\* C1: every file written by pack0 has a first section name starting with
\* "UPX" and has canUnpack0 return true, not -1, false or an error.
PackedOutputRecognised ==
    /\ (peLast.op = "pack0" /\ fo # NoFile) => HasUPXPrefix(fo.isection[1].name)
    /\ (FromPack0 /\ peLast.op = "canUnpack0") => peLast.ret = "true"

\* C2: unpacking the file pack0 wrote for x succeeds (canUnpack0 lets unpack0
\* run and unpack0 throws nothing) and the header written has the imagesize,
\* codebase, codesize, entry and subsystem of x.
RoundTripHeaderFields ==
    /\ (FromPack0 /\ peLast.op = "canUnpack0") =>
           peLast.ret = "true"
    /\ (FromPack0 /\ peLast.op = "unpack0") =>
           /\ peLast.err = "none"
           /\ peLast.oh.imagesize = fiSource.ih.imagesize
           /\ peLast.oh.codebase = fiSource.ih.codebase
           /\ peLast.oh.codesize = fiSource.ih.codesize
           /\ peLast.oh.entry = fiSource.ih.entry
           /\ peLast.oh.subsystem = fiSource.ih.subsystem

PackEditedBits == {"FORCE_INTEGRITY", "GUARD_CF", "DYNAMIC_BASE", "HIGH_ENTROPY_VA"}

UnpackZeroedDirs == {"DEBUG", "IAT", "BOUND_IMPORT"}

\* the stored header b against the input's header a, and the stored section
\* headers against the input's
StoredTracksInput(a, asec, b, bsec) ==
    /\ [b EXCEPT !.dllflags = a.dllflags, !.flags = a.flags, !.objects = a.objects,
                 !.ddirs = [@ EXCEPT !["SECURITY"] = a.ddirs["SECURITY"]]] = a
    /\ b.dllflags \subseteq a.dllflags
    /\ a.dllflags \ b.dllflags \subseteq PackEditedBits
    /\ b.dllflags \cap {"FORCE_INTEGRITY", "GUARD_CF"} = {}
    /\ a.flags \subseteq b.flags
    /\ b.flags \subseteq a.flags \cup {"RELOCS_STRIPPED"}
    /\ b.ddirs["SECURITY"] = NoDir
    /\ b.objects \in {a.objects, a.objects - 1}
    /\ Len(bsec) = b.objects
    /\ \A i \in 1..Len(bsec) :
           bsec[i] = [asec[i] EXCEPT !.vsize = IF @ = 0 THEN asec[i].size ELSE @]

\* the header w unpack0 writes against the stored header b
WrittenTracksStored(b, w) ==
    /\ [w EXCEPT !.chksum = b.chksum, !.flags = b.flags, !.ddirs = b.ddirs] = b
    /\ w.chksum = 0
    /\ b.flags \subseteq w.flags
    /\ w.flags \subseteq b.flags \cup {"RELOCS_STRIPPED"}
    /\ \A d \in UnpackZeroedDirs : w.ddirs[d] = NoDir
    /\ \A d \in PeDirs \ (UnpackZeroedDirs \cup {"BASERELOC"}) : w.ddirs[d] = b.ddirs[d]
    /\ w.ddirs["BASERELOC"].vaddr \in {0, b.ddirs["BASERELOC"].vaddr}

RECURSIVE ReadBytes(_)
ReadBytes(reads) ==
    IF reads = <<>> THEN <<>> ELSE Head(reads).bytes \o ReadBytes(Tail(reads))

PassOf(tag) ==
    CASE tag \in {"cimports", "dllstrings"} -> "rebuildImports"
      [] tag \in {"crelocs", "big_relocs"} -> "rebuildRelocs"
      [] tag = "icondir_count" -> "rebuildResources"
      [] OTHER -> "none"

\* C4: the unpack passes read exactly the optional blocks pack0 wrote, in the
\* order written, each pass the bytes written for it.
ExtraInfoReadAsWritten ==
    (EiFromPack0 /\ peLast.op = "unpack0") =>
        /\ ReadBytes(peLast.reads) = SubSeq(fi.ei.tail, 1, Len(fi.ei.tail) - 4)
        /\ \A i \in 1..Len(peLast.reads) :
               \A j \in 1..Len(peLast.reads[i].bytes) :
                   PassOf(peLast.reads[i].bytes[j]) = peLast.reads[i].pass

\* C5: pack0 on a file pack0 produced is refused with AlreadyPacked.
RepackRefused ==
    (FromPack0 /\ peLast.op = "pack0") => peLast.err = "AlreadyPacked"

\* C6 as stated: an input whose first section name starts with "UPX" makes
\* pack0 fail with AlreadyPacked, whatever the other fields and the options.
UpxNamedAlreadyPacked ==
    (peLast.op = "pack0" /\ fi.ih.objects >= 1 /\ HasUPXPrefix(fi.isection[1].name))
        => peLast.err = "AlreadyPacked"

\* the checks pack0 makes before it looks at the first section name
EarlierChecksPass(f, o) ==
    /\ PeOk(readSectionHeaders(PeStart(f, o), f))
    /\ o.force \/ ~f.needForce
    /\ o.force \/ "FORCE_INTEGRITY" \notin f.ih.dllflags
    /\ f.ih.subsystem \in SubsystemMask
    /\ f.ih.ddirs["COM_DESCRIPTOR"].size = 0

\* C6 (amended): an input whose first section name starts with "UPX" is never
\* packed.  pack0 fails with CantPackExact under --exact; otherwise with
\* CantPack when the section headers are rejected, the file needs --force,
\* FORCE_INTEGRITY is set without --force, the subsystem is unsupported or a
\* CLR directory is present; and with AlreadyPacked in every other case.
UpxNamedNeverPacked ==
    (peLast.op = "pack0" /\ fi.ih.objects >= 1 /\ HasUPXPrefix(fi.isection[1].name)) =>
        /\ fo = NoFile
        /\ peLast.err = (IF opt.exact THEN "CantPackExact"
                         ELSE IF EarlierChecksPass(fi, opt) THEN "AlreadyPacked"
                         ELSE "CantPack")

\* pack0 has refused with AlreadyPacked an input named "UPX" whose directory
\* 15 would otherwise have been the reason of a CantPack
UpxNamedNeverPackedWitness ==
    /\ peLast.op = "pack0"
    /\ fi.ih.objects >= 1
    /\ fi.isection[1].name = <<"U", "P", "X">>
    /\ peLast.err = "AlreadyPacked"
    /\ fi.ih.ddirs["D15"].size # 0

\* C7: a file operation leaves every option as it was before it, and the
\* outcome of pack0 on a file is the one it has under the options the run
\* started with, whatever was processed before.
OptionsLeftAlone ==
    /\ opt = opt0
    /\ peLast.op = "pack0" => peLast.err = pack0(fi, opt0).err
\* ------------------------------------------------------------------
\* the relocation codec's properties

\* the pairs of a sequence as sort keys: position first, then type
RrKeys(pairs) == {pairs[i].pos * 16 + pairs[i].type : i \in 1..Len(pairs)}

RECURSIVE RrAscending(_)
\* a set of numbers in ascending order
RrAscending(S) ==
    IF S = {} THEN <<>>
    ELSE <<CHOOSE m \in S : \A x \in S : m <= x>>
            \o RrAscending(S \ {CHOOSE m \in S : \A x \in S : m <= x})

\* the canonical block of the page: the header, the page's entries ascending,
\* and a zero entry when their number is odd
RrCanonBlock(page, keys) ==
    RrBlockWords(page * 4096,
                 8 + 2 * Len(keys) + (IF Len(keys) % 2 = 1 THEN 2 ELSE 0),
                 [i \in 1..Len(keys) |-> (keys[i] % 16) * 4096 + ((keys[i] \div 16) % 4096)]
                    \o (IF Len(keys) % 2 = 1 THEN <<0>> ELSE <<>>))

RECURSIVE RrCanonPages(_, _)
RrCanonPages(pages, keys) ==
    IF pages = <<>> THEN <<>>
    ELSE RrCanonBlock(Head(pages),
                      RrAscending({k \in keys : k \div 65536 = Head(pages)}))
            \o RrCanonPages(Tail(pages), keys)

\* the canonical form of the stream that holds the pairs
RrCanonical(pairs) ==
    RrCanonPages(RrAscending({k \div 65536 : k \in RrKeys(pairs)}), RrKeys(pairs))

\* a valid stream: well-formed blocks, positions below 2^28, no pair twice
RrValid(src) ==
    /\ Reloc_reader(src, FALSE).err = "none"
    /\ \A i \in 1..Len(Reloc_reader(src, FALSE).pairs) :
          Reloc_reader(src, FALSE).pairs[i].pos < 2^28
    /\ Cardinality(RrKeys(Reloc_reader(src, FALSE).pairs)) = Len(Reloc_reader(src, FALSE).pairs)

\* C11: for every valid relocation stream, adding the pairs the reader yields to a
\* builder and finishing it produces the stream in canonical form, and reading that
\* output yields the same pairs in ascending position order
RebuildIsCanonical ==
    (rr.step = "rebuilt" /\ RrValid(rr.src)) =>
        /\ rr.built.err = "none"
        /\ rr.built.words = RrCanonical(rr.pairs)
        /\ rr.reread.err = "none"
        /\ [i \in 1..Len(rr.reread.pairs) |->
                rr.reread.pairs[i].pos * 16 + rr.reread.pairs[i].type]
             = RrAscending(RrKeys(rr.pairs))

\* the three errors about a block's size_of_block
RrSizeErrors ==
    {"bad reloc size_of_block", "overflow reloc size_of_block", "odd reloc size_of_block"}

\* a single empty block: eight bytes with size_of_block 0
RrLoneEmpty(src) == src.size = 8 /\ src.words[3] = 0 /\ src.words[4] = 0

RECURSIVE RrFirstBad(_, _)
\* walking block to block by the declared sizes from byte offset off: "bad" at
\* the first block whose size is below 8, odd or larger than what is left,
\* "short" where fewer than eight bytes are left, "none" at the end
RrFirstBad(src, off) ==
    IF off >= src.size \/ (off = 0 /\ RrLoneEmpty(src)) THEN "none"
    ELSE IF src.size - off < 8 THEN "short"
    ELSE IF \/ src.words[off \div 2 + 3] + 65536 * src.words[off \div 2 + 4] < 8
            \/ src.words[off \div 2 + 3] % 2 = 1
            \/ src.words[off \div 2 + 3] + 65536 * src.words[off \div 2 + 4] > src.size - off
    THEN "bad"
    ELSE RrFirstBad(src, off + src.words[off \div 2 + 3] + 65536 * src.words[off \div 2 + 4])

RlKeysAscending(pairs) ==
    [i \in 1..Len(pairs) |->
        RrAscending({(pairs[j].pos * 16 + pairs[j].type) * 8 + j : j \in 1..Len(pairs)})[i] \div 8]

\* the elements of a sequence of keys that lie on the page, in order
RlOnPage(keys, page) ==
    LET F[i \in 0..Len(keys)] ==
            IF i = 0 THEN <<>>
            ELSE IF keys[i] \div 65536 = page THEN Append(F[i - 1], keys[i])
            ELSE F[i - 1]
    IN F[Len(keys)]

RECURSIVE RlBlocksOf(_, _)
\* one block for each page of the sequence, holding the page's keys as entries
RlBlocksOf(pages, keys) ==
    IF pages = <<>> THEN <<>>
    ELSE RrCanonBlock(Head(pages), RlOnPage(keys, Head(pages)))
            \o RlBlocksOf(Tail(pages), keys)

\* C13: finish() emits exactly one block for each distinct 4 KiB page among the
\* added positions, pages ascending and entries ascending within a block; each
\* size_of_block is 8 + 2 * entries rounded up to a multiple of 4 with zero padding,
\* and result_size is the sum of the block sizes, 0 when nothing was added
FinishOneBlockPerPage ==
    (rl.fin.called /\ rl.fin.err = "none") =>
        /\ rl.oxrelocs.words =
              RlBlocksOf(RrAscending({p.pos \div 4096 : p \in {rl.added[i] : i \in 1..Len(rl.added)}}),
                         RlKeysAscending(rl.added))
        /\ rl.oxrelocs.size = 2 * Len(rl.oxrelocs.words)
        /\ rl.added = <<>> => rl.oxrelocs.size = 0

\* two entries of one page and one of the next gave two blocks of twelve bytes
FinishOneBlockPerPageWitness ==
    /\ rl.fin.called
    /\ rl.fin.err = "none"
    /\ rl.added = <<[pos |-> 8196, type |-> 3], [pos |-> 4104, type |-> 3],
                    [pos |-> 4100, type |-> 3]>>
    /\ rl.oxrelocs.size = 24
    /\ rl.oxrelocs.words = <<4096, 0, 12, 0, 12292, 12296, 8192, 0, 12, 0, 12292, 0>>

\* C14: during finish() no staged entry is overwritten by emitted block data before
\* it has been read, and no entry is written at or past the staging slot of the
\* entry being processed: finish() raises "too many inplace relocs" instead
FinishNeverOvertakes ==
    rl.fin.called =>
        /\ ~rl.fin.clobbered
        /\ ~rl.fin.overran
        /\ rl.fin.err = "too many inplace relocs" => ~rl.oxrelocs.owned

\* finish() stopped on two pages of one entry each
FinishNeverOvertakesWitness ==
    /\ rl.fin.called
    /\ rl.fin.err = "too many inplace relocs"
    /\ Len(rl.added) = 2
    /\ ~rl.fin.clobbered

\* C15: the builder's buffer is released exactly once on every path: by the
\* destructor when finish() did not complete, by the caller when it returned; after
\* finish() start_did_alloc is false and a further add() or finish() fails its
\* assertion
BufferReleasedOnce ==
    /\ rl.frees <= 1
    /\ (rl.constructed = 1 /\ ~rl.alive /\ ~rl.oxrelocs.owned) => rl.frees = 1
    /\ rl.freedBy = "destructor" => ~(rl.fin.called /\ rl.fin.err = "none")
    /\ rl.freedBy = "caller" => (rl.fin.called /\ rl.fin.err = "none")
    /\ (rl.fin.called /\ rl.fin.err = "none") => ~rl.b.start_did_alloc
    /\ rl.late # "none" => (rl.aborted /\ rl.fin.called /\ rl.fin.err = "none")
    /\ (rl.alive /\ ~rl.b.start_did_alloc) => ~ENABLED (RlAdd /\ ~rl'.aborted)

\* finish() returned, the caller released oxrelocs and the destructor ran
BufferReleasedOnceWitness ==
    /\ rl.fin.called
    /\ rl.fin.err = "none"
    /\ rl.added # <<>>
    /\ ~rl.alive
    /\ ~rl.oxrelocs.owned
    /\ rl.frees = 1
    /\ rl.freedBy = "caller"

\* two of the added pairs are equal in position and type
RlHasDuplicate(pairs) == \E i, j \in 1..Len(pairs) : i < j /\ pairs[i] = pairs[j]

\* C16: finish() fails with CantPack "duplicate relocs" exactly when force is off
\* and two added entries have the same position and type; with force duplicates are
\* accepted and emitted repeated
DuplicateRelocsExactly ==
    rl.fin.called =>
        /\ rl.fin.err = "duplicate relocs" <=> (~opt.force /\ RlHasDuplicate(rl.added))
        /\ (opt.force /\ RlHasDuplicate(rl.added) /\ rl.fin.err = "none") =>
              \E i \in 1..(Len(rl.oxrelocs.words) - 1) :
                  /\ rl.oxrelocs.words[i] = rl.oxrelocs.words[i + 1]
                  /\ rl.oxrelocs.words[i] >= 4096
\* ------------------------------------------------------------------
\* the TLS passes' properties

\* the value pass 2 gives the pointer v: one into the data area moves with it
TlsMoved(v) ==
    IF v >= TlsImage.datastart /\ v < TlsImage.dataend
    THEN v + TlsImage.newaddr + 24 - TlsImage.datastart + TlsImage.imagebase
    ELSE v

\* C17: for n relocations recorded by TLS pass 1 inside [datastart, dataend), TLS
\* pass 2 processes every one of the n: it rewrites each pointer and adds one entry
\* of the recorded type, so exactly n data-area entries are added to the builder
\* (a pointer to outside the data area keeps its value)
TlsPass2ProcessesAll ==
    (tls.step = "pass2" /\ tls.hastls) =>
        /\ Cardinality({i \in 1..Len(tls.added) : tls.added[i].from = "data"}) = Len(ivarr)
        /\ \A k \in 1..Len(ivarr) :
              /\ tls.otls.data[ivarr[k].start - (TlsImage.datastart - TlsImage.imagebase)]
                    = TlsMoved(tls.mem[ivarr[k].start])
              /\ \E i \in 1..Len(tls.added) :
                    /\ tls.added[i].from = "data"
                    /\ tls.added[i].type = ivarr[k].len
                    /\ tls.added[i].pos = TlsMoved(tls.mem[ivarr[k].start]) - TlsImage.imagebase

\* the entries pass 2 added for the data area, in order
TlsDataAdds == TlsSelect(tls.added, {i \in 1..Len(tls.added) : tls.added[i].from = "data"})

\* the new RVA of the pointer slot that was at the RVA pos of the data area
TlsSlotMoved(pos) == TlsImage.newaddr + 24 + (pos - (TlsImage.datastart - TlsImage.imagebase))

\* C23: the entry TLS pass 2 adds for a relocation recorded at pos inside the data
\* area is located at newaddr + sizeof(tls) + (pos - RVA of datastart), the new
\* RVA of that pointer slot
TlsEntryAtMovedSlot ==
    (tls.step = "pass2" /\ tls.hastls) =>
        \A k \in 1..Len(TlsDataAdds) :
            TlsDataAdds[k].pos = TlsSlotMoved(ivarr[(k - 1) * TlsDataStep + 1].start)

\* what the loop does instead: the entry is located at the RVA the rewritten
\* pointer holds, the place its target moved to
TlsEntryAtMovedTarget ==
    (tls.step = "pass2" /\ tls.hastls) =>
        \A k \in 1..Len(TlsDataAdds) :
            TlsDataAdds[k].pos
                = TlsMoved(tls.mem[ivarr[(k - 1) * TlsDataStep + 1].start]) - TlsImage.imagebase
\* ------------------------------------------------------------------
\* the resource processing's properties

\* leaf i was stored compressed
RsCompressed(i) == ~rs.stored[i].kept

\* resource compression is on and neither the keep option nor the built-in
\* keep list matches a leaf of the tree
RsNoKeepMatches ==
    /\ opt.compress_resources # 0
    /\ \A i \in 1..Len(rs.leaves) :
          /\ ~match(rs.leaves[i].type, rs.leaves[i].name, rs.keep)
          /\ ~match(rs.leaves[i].type, rs.leaves[i].name, ResBuiltinKeep)

\* the RT_ICON and the RT_GROUP_ICON leaves of the tree
RsIcons == {i \in 1..Len(rs.leaves) : rs.leaves[i].type = ResNum(3)}
RsGroups == {i \in 1..Len(rs.leaves) : rs.leaves[i].type = ResNum(14)}

\* the icon ids of the first icon group, none without a group
RsFirstGroupIds ==
    IF RsGroups = {} THEN {}
    ELSE LET g == CHOOSE g \in RsGroups : \A h \in RsGroups : g <= h
         IN {rs.leaves[g].ids[k] : k \in 1..Len(rs.leaves[g].ids)}

\* the one icon left alone at level 1: the first leaf that carries the first
\* id of the first icon group, or the first icon leaf when there is no group
RsFirstIcon ==
    LET c == IF RsGroups = {} THEN RsIcons
             ELSE {i \in RsIcons : rs.leaves[i].name.id =
                        rs.leaves[CHOOSE g \in RsGroups : \A h \in RsGroups : g <= h].ids[1]}
    IN {i \in c : \A j \in c : i <= j}

\* C18 as stated: with resource compression on and no keep filter matching,
\* compress_icons 0 leaves every RT_ICON leaf uncompressed, 1 compresses every
\* RT_ICON leaf except the icons of the first icon group, 2 compresses every RT_ICON
\* leaf, 3 additionally compresses the RT_GROUP_ICON leaves
IconPolicyAsStated ==
    (rs.step = "packed" /\ RsNoKeepMatches) =>
        /\ opt.compress_icons = 0 => \A i \in RsIcons : ~RsCompressed(i)
        /\ opt.compress_icons = 1 =>
              \A i \in RsIcons : RsCompressed(i) <=> rs.leaves[i].name.id \notin RsFirstGroupIds
        /\ opt.compress_icons = 2 => \A i \in RsIcons : RsCompressed(i)
        /\ opt.compress_icons = 3 => \A i \in RsIcons \cup RsGroups : RsCompressed(i)

\* C18: with resource compression on and no keep filter matching, compress_icons 0
\* leaves every RT_ICON leaf uncompressed; 1 compresses every RT_ICON leaf except
\* one, the first leaf with the first id of the first icon group (the first icon
\* leaf when there is no group); 2 compresses every RT_ICON leaf except the icons of
\* the first icon group; 3 compresses every RT_ICON and every RT_GROUP_ICON leaf.
\* Of the RT_GROUP_ICON leaves, 0 compresses none and 1 and 2 all but the first.
IconPolicy ==
    (rs.step = "packed" /\ RsNoKeepMatches) =>
        /\ opt.compress_icons = 0 => \A i \in RsIcons \cup RsGroups : ~RsCompressed(i)
        /\ opt.compress_icons = 1 =>
              \A i \in RsIcons : RsCompressed(i) <=> i \notin RsFirstIcon
        /\ opt.compress_icons = 2 =>
              \A i \in RsIcons : RsCompressed(i) <=> rs.leaves[i].name.id \notin RsFirstGroupIds
        /\ opt.compress_icons = 3 => \A i \in RsIcons \cup RsGroups : RsCompressed(i)
        /\ opt.compress_icons \in {1, 2} =>
              \A g \in RsGroups : RsCompressed(g) <=> \E h \in RsGroups : h < g

\* at level 1 a tree with icons 1, 2, 3 and the groups <<2, 1>> and <<3, 1, 2>>
\* kept icon 2 alone and compressed icons 1 and 3 and the second group
IconPolicyWitness ==
    /\ rs.step = "packed"
    /\ RsNoKeepMatches
    /\ opt.compress_icons = 1
    /\ Len(rs.leaves) = 6
    /\ rs.leaves[3] = RsIcon(2)
    /\ rs.leaves[5].ids = <<2, 1>>
    /\ [i \in 1..6 |-> rs.stored[i].kept] = <<FALSE, FALSE, TRUE, FALSE, TRUE, FALSE>>

RECURSIVE RsSplit(_, _)
\* the parts of the string s between the separators c
RsSplit(s, c) ==
    IF ResStrchr(s, 1, c) = 0 THEN <<s>>
    ELSE <<SubSeq(s, 1, ResStrchr(s, 1, c) - 1)>>
            \o RsSplit(SubSeq(s, ResStrchr(s, 1, c) + 1, Len(s)), c)

\* a clause part is a number: decimal digits only
RsIsNumber(part) == part # <<>> /\ \A i \in 1..Len(part) : part[i] >= 48 /\ part[i] <= 57

\* a numeric part matches a numbered id by value, a string part a named id by
\* equal characters
RsPartMatches(x, part) ==
    IF x.named THEN ~RsIsNumber(part) /\ part = x.name
    ELSE RsIsNumber(part) /\ ResAtoi(part, 1, 0) = x.id

\* a clause "type" matches on the type alone, "type/name" needs both
RsClauseMatches(type, name, clause) ==
    IF ResStrchr(clause, 1, 47) = 0 THEN RsPartMatches(type, clause)
    ELSE /\ RsPartMatches(type, SubSeq(clause, 1, ResStrchr(clause, 1, 47) - 1))
         /\ RsPartMatches(name, SubSeq(clause, ResStrchr(clause, 1, 47) + 1, Len(clause)))

\* C19: match() returns true iff at least one comma-separated clause of the keep
\* string matches the resource, a numeric clause part matching a numbered id by
\* value and a string clause part a named id by equality of characters
MatchIsClauseDisjunction ==
    rs.probe.asked =>
        (rs.probe.result <=>
            \E k \in 1..Len(RsSplit(rs.keep, 44)) :
                RsClauseMatches(rs.probe.type, rs.probe.name, RsSplit(rs.keep, 44)[k]))

\* the same with the three departures of Helper::match written in: a part read
\* by atoi (leading digits, 0 without any), names compared by low byte
MatchUpToAtoi ==
    rs.probe.asked =>
        (rs.probe.result <=>
            \E k \in 1..Len(RsSplit(rs.keep, 44)) :
                LET c == RsSplit(rs.keep, 44)[k]
                    sl == ResStrchr(c, 1, 47)
                    pm(x, part) == IF x.named THEN part = [i \in 1..Len(x.name) |-> x.name[i] % 256]
                                   ELSE ResAtoi(part, 1, 0) = x.id
                IN IF sl = 0 THEN pm(rs.probe.type, c)
                   ELSE pm(rs.probe.type, SubSeq(c, 1, sl - 1))
                            /\ pm(rs.probe.name, SubSeq(c, sl + 1, Len(c))))

\* C20: after unpack every RT_GROUP_ICON leaf has its original icon-entry count,
\* for every compress_icons level and keep filter
GroupCountsRestored ==
    rs.step = "unpacked" => \A g \in RsGroups : rs.counts[g] = rs.leaves[g].count

\* the same when pack kept at most one RT_GROUP_ICON leaf uncompressed
GroupCountsRestoredOneKept ==
    (rs.step = "unpacked" /\ \A g, h \in RsGroups : (rs.stored[g].kept /\ rs.stored[h].kept) => g = h)
        => \A g \in RsGroups : rs.counts[g] = rs.leaves[g].count

\* ------------------------------------------------------------------
\* the strip-relocs decision of pack0

\* pack0 has run on fi with relocation stripping in effect
StripInEffect == peLast.op = "pack0" /\ opt.strip_relocs = 1

StripAslr == "DYNAMIC_BASE" \in fi.ih.dllflags

\* the ASLR bits are clear in the header saved in extra_info and in the one
\* written
StripAslrCleared ==
    /\ fo.ei.ih.dllflags \cap {"DYNAMIC_BASE", "HIGH_ENTROPY_VA"} = {}
    /\ fo.ih.dllflags \cap {"DYNAMIC_BASE", "HIGH_ENTROPY_VA"} = {}

\* a refusal by CantPack; throwCantPackExact and the "already packed" test of
\* checkHeaderValues come before the strip-relocs decision
StripRefused == peLast.err \in {"CantPack", "CantPackExact", "AlreadyPacked"}

\* C21 as stated: whenever pack0 packs an image with relocation stripping in
\* effect the image is neither a DLL nor EFI, and if DYNAMIC_BASE was set then
\* force was given and DYNAMIC_BASE and HIGH_ENTROPY_VA are clear in the header
\* saved and written; without force such an image is refused
StripChecksAlways ==
    StripInEffect =>
        /\ peLast.err = "none" =>
              /\ ~isdll(fi.ih)
              /\ ~isefi(fi.ih)
              /\ StripAslr => (opt.force /\ StripAslrCleared)
        /\ (StripAslr /\ ~opt.force) => StripRefused

\* C21: the same for an image whose header does not carry RELOCS_STRIPPED
\* already; for one that does pack0 turns stripping on without any of the tests
StripChecksUnlessStripped ==
    (StripInEffect /\ "RELOCS_STRIPPED" \notin fi.ih.flags) =>
        /\ peLast.err = "none" =>
              /\ ~isdll(fi.ih)
              /\ ~isefi(fi.ih)
              /\ StripAslr => (opt.force /\ StripAslrCleared)
        /\ (StripAslr /\ ~opt.force) => StripRefused

\* pack0 packed, under force, an image that had DYNAMIC_BASE and
\* HIGH_ENTROPY_VA set and relocations to strip
StripChecksWitness ==
    /\ StripInEffect
    /\ peLast.err = "none"
    /\ "RELOCS_STRIPPED" \notin fi.ih.flags
    /\ {"DYNAMIC_BASE", "HIGH_ENTROPY_VA"} \subseteq fi.ih.dllflags
    /\ opt.force
    /\ StripAslrCleared

\* an image refused for its DYNAMIC_BASE flag
StripRefusedWitness ==
    /\ StripInEffect
    /\ "RELOCS_STRIPPED" \notin fi.ih.flags
    /\ StripAslr
    /\ ~opt.force
    /\ peLast.err = "CantPack"
    /\ pack0(fi, [opt EXCEPT !.force = TRUE]).err = "none"

\* ------------------------------------------------------------------
\* readFileHeader

\* the header the last pass of the loop read
FhLastHeader == FhHeaderAt(fh.file, fh.pe_offset)

\* what the search has done so far stays inside the file and inside 20 reads,
\* and its outcome is the one the header read last calls for
FhWithinLimits ==
    /\ fh.reads <= FhMaxHops
    /\ fh.pe_offset <= fh.file.size
    /\ (fh.pc = "done" /\ fh.err = "none" /\ fh.ret = "0") =>
          \/ FhLastHeader.kind = "other"
          \/ (fh.ic = FhMaxHops /\ fh.reads = FhMaxHops)
    /\ (fh.pc = "done" /\ fh.ret = "format") => (FhLastHeader.kind = "PE" /\ fh.ic < FhMaxHops)
    /\ (fh.pc = "done" /\ fh.err = "none" /\ FhLastHeader.kind = "other") => fh.ret = "0"
    /\ (fh.pc = "done" /\ FhReadable(fh.file, fh.pe_offset) /\ FhLastHeader.kind = "MZ"
            /\ ~FhOverlap(FhLastHeader) /\ fh.ic < FhMaxHops) =>
          /\ fh.err = "bad PE delta"
          /\ \/ fh.pe_offset + FhDelta(FhLastHeader) >= UINT_MOD
             \/ fh.pe_offset + FhDelta(FhLastHeader) > fh.file.size
    /\ fh.err = "bad PE delta" =>
          \/ fh.pe_offset + FhDelta(FhLastHeader) >= UINT_MOD
          \/ fh.pe_offset + FhDelta(FhLastHeader) > fh.file.size

\* C22: readFileHeader terminates after reading at most 20 headers: it returns 0
\* when a header is neither MZ nor PE or when no PE signature is reached within
\* 20 hops; a delta that makes pe_offset wrap around or exceed the file size
\* raises CantPack "bad PE delta", so pe_offset never exceeds the file size
ReadFileHeaderTerminates == [](FhWithinLimits) /\ <>(fh.pc = "done")

\* the search gave up after 20 headers
ReadFileHeaderWitness ==
    /\ fh.pc = "done" /\ fh.reads = FhMaxHops /\ fh.ret = "0"
    /\ FhLastHeader.kind = "MZ"

\* ------------------------------------------------------------------
\* the resource directory: zeroed by pack, written back by unpack

\* the cells of the original directory's res_dir and res_data structures
RcDirCells ==
    UNION {iv.start .. (iv.start + iv.len - 1) :
              iv \in {RcClearIv(rc.orig, 0, 0)[i] : i \in 1..Len(RcClearIv(rc.orig, 0, 0))}}

\* they form one region without a hole
RcOneRegion == \A a \in RcDirCells : \A b \in RcDirCells : \A c \in a..b : c \in RcDirCells

RECURSIVE RcSame(_, _)
\* two directory trees with the same types, names, languages and leaves; the id
\* of a named entry is the offset of its string and is not compared
RcSame(x, y) ==
    /\ x.leaf = y.leaf
    /\ x.name = y.name
    /\ (x.name = <<>> => x.id = y.id)
    /\ x.nnamed = y.nnamed
    /\ IF x.leaf THEN x.offset = y.offset /\ x.size = y.size
       ELSE /\ Len(x.kids) = Len(y.kids)
            /\ \A i \in 1..Len(x.kids) : i \in 1..Len(y.kids) => RcSame(x.kids[i], y.kids[i])

\* the cells of the directory region are all zero in the image pack compresses
RcOrigZeroed == \A c \in RcDirCells : RcAt(rc.ibuf, RcVaddr + c) = RcZero

\* C25: clear() zeroes the original directory exactly when its nodes and data
\* entries form one contiguous region; unpack writes the rebuilt directory over
\* the original place exactly when pack zeroed it, and either way the unpacked
\* image holds the whole directory again.
ResourceDirRestored ==
    /\ rc.step \in {"packed", "unpacked"} =>
          /\ rc.zeroed <=> RcOneRegion
          /\ rc.zeroed <=> RcOrigZeroed
          /\ ~rc.zeroed =>
                \A c \in RcDirCells : RcAt(rc.ibuf, RcVaddr + c) = RcAt(rc.orig, RcVaddr + c)
    /\ rc.step = "unpacked" =>
          /\ rc.wrote <=> rc.zeroed
          /\ ~rc.wrote =>
                \A c \in RcDirCells : RcAt(rc.obuf, RcVaddr + c) = RcAt(rc.orig, RcVaddr + c)
          /\ RcSame(RcTree(rc.obuf), RcTree(rc.orig))

ResourceDirRestoredWitness ==
    /\ rc.step = "unpacked"
    /\ rc.wrote
    /\ rc.keep # {}
    /\ RcTree(rc.obuf).kids[1].kids[1].name # <<>>

\* the same with a directory that is left in place
ResourceDirLeftWitness ==
    /\ rc.step = "unpacked"
    /\ ~rc.wrote
    /\ rc.keep # {}

\* every resource's data is back where it was: so when the name strings sit right
\* behind the entries and none is shared
RcDataRestored ==
    rc.step = "unpacked" =>
        \A i \in 1..Len(RcLeaves(RcTree(rc.orig))) :
            \A j \in 0..(RcLeaves(RcTree(rc.orig))[i].size - 1) :
                RcAt(rc.obuf, RcLeaves(RcTree(rc.orig))[i].offset + j)
                    = RcAt(rc.orig, RcLeaves(RcTree(rc.orig))[i].offset + j)

\* ------------------------------------------------------------------
\* Interval: flatten and the bytes clear() zeroes

\* every range handed to add() so far lies inside the base buffer
IvInBuffer == ~IvOutside(ivAdded)

ImpHasThunk(n) ==
    \/ name_for_proc(kernelDll, OrdString(n), thunk_id, thunk_separator_first)
          \in {imp.added[i] : i \in 1..Len(imp.added)}
    \/ name_for_proc(kernelDll, OrdString(n), thunk_id, thunk_separator)
          \in {imp.added[i] : i \in 1..Len(imp.added)}

\* C28: for every ordinal 0..0xffff of a kernel-dll descriptor that is emitted as
\* a 0xfe entry the linker already holds the thunk, so getAddress finds it:
\* neither "entry not found" nor a failed assertion.
KernelOrdinalsLinked ==
    /\ imp.step = "emitted" => imp.err = "none"
    /\ imp.step \in {"linked", "emitted"} =>
          \A i \in 1..Len(imp.idlls) : \A j \in 1..Len(imp.idlls[i].entries) :
              (imp.idlls[i].isk32 /\ imp.kernel32ordinal /\ ~imp.idlls[i].entries[j].byname)
                  => ImpHasThunk(imp.idlls[i].entries[j].ord)

\* the same when no kernel descriptor imports ordinal 0
KernelOrdinalsLinkedNonZero ==
    (\A i \in 1..Len(imp.idlls) : \A j \in 1..Len(imp.idlls[i].entries) :
        (imp.idlls[i].isk32 /\ ~imp.idlls[i].entries[j].byname)
            => imp.idlls[i].entries[j].ord # 0)
    => /\ imp.step = "emitted" => imp.err = "none"
       /\ imp.step \in {"linked", "emitted"} =>
             \A i \in 1..Len(imp.idlls) : \A j \in 1..Len(imp.idlls[i].entries) :
                 (imp.idlls[i].isk32 /\ imp.kernel32ordinal /\ ~imp.idlls[i].entries[j].byname)
                     => ImpHasThunk(imp.idlls[i].entries[j].ord)

\* ------------------------------------------------------------------
\* type-1 and type-2 relocations through pack and unpack

\* the records of that type pass 1 keeps: inside the image, each once
PrKeptRecords(type) ==
    {r \in {pr.records[i] : i \in 1..Len(pr.records)} : r.type = type /\ r.pos < PrImagesize}

\* C29: every type-1 and type-2 relocation that pass 1 keeps is added again by
\* rebuildRelocs with the same RVA and the same type, for every set of RVAs
\* inside the image at or above rvamin and with either type present or not.
LowHighRelocsRestored ==
    (pr.step = "unpacked" /\ ~pr.strip) =>
        \A t \in {1, 2} : \A r \in PrKeptRecords(t) :
            \E i \in 1..Len(pr.adds) : pr.adds[i] = r

\* the same, and nothing else of these types, when no record of type 1 or 2 is
\* at rvamin itself
LowHighRelocsRestoredAbove ==
    (/\ pr.step = "unpacked"
     /\ ~pr.strip
     /\ \A t \in {1, 2} : \A r \in PrKeptRecords(t) : r.pos # PrRvamin) =>
        \A t \in {1, 2} :
            {pr.adds[i] : i \in {k \in 1..Len(pr.adds) : pr.adds[k].type = t}} = PrKeptRecords(t)

\* ---- the layout of the output sections (pack0, lines 2556-2577)

\* pack0 wrote an output file for an image that is not a WinCE one
PeLaidOut == peLast.op = "pack0" /\ fo # NoFile

\* section i of the output ends where section i + 1 starts
PeAdjoins(i) ==
    fo.isection[i].vaddr + fo.isection[i].vsize = fo.isection[i + 1].vaddr

\* C30: in every output file of pack0 the sections tile the virtual address
\* range: the first one starts at rvamin (the start of the first section of the
\* input), every section ends where the next one starts, and the image size
\* is the end of the third section
SectionsTile ==
    PeLaidOut =>
        /\ fo.isection[1].vaddr = fi.isection[1].vaddr
        /\ \A i \in 1 .. Len(fo.isection) - 1 : PeAdjoins(i)
        /\ Len(fo.isection) = 3 =>
               fo.ih.imagesize = fo.isection[3].vaddr + fo.isection[3].vsize

\* the same for the images whose object alignment is a multiple of the file
\* alignment of the output, min(ih.filealign, 0x200)
SectionsTileAligned ==
    (PeLaidOut /\ fi.ih.objectalign % UPX_MIN(fi.ih.filealign, 512) = 0) =>
        /\ fo.isection[1].vaddr = fi.isection[1].vaddr
        /\ \A i \in 1 .. Len(fo.isection) - 1 : PeAdjoins(i)
        /\ Len(fo.isection) = 3 =>
               fo.ih.imagesize = fo.isection[3].vaddr + fo.isection[3].vsize

\* an output of three sections for an image of a smaller object alignment
SectionsTileWitness ==
    PeLaidOut /\ Len(fo.isection) = 3 /\ fi.ih.objectalign = 512

====
